---- MODULE Spec2Model ----
(***************************************************************************)
(* Model of the proxy's dialect-C -> dialect-M streaming path:             *)
(*   - StreamTransformer (api/transformers/openai_to_anthropic.rs)         *)
(*   - the /v1/messages reader task, its bounded channel and the response  *)
(*     body that drains it (api/routes/anthropic.rs)                       *)
(*                                                                         *)
(* Strings are sequences of one-character strings.  An optional JSON field *)
(* is None (absent, or not of the type the code asks for) or Some(v).      *)
(* An SSE frame produced by format_sse is kept as the record it serialises.*)
(***************************************************************************)
EXTENDS Integers, Sequences, FiniteSets, TLC

(***************************************************************************)
(* Bounds of the exploration.                                              *)
(***************************************************************************)
\* number of process_chunk calls the driver of Spec makes
MaxPayloads == 4
\* number of upstream chunks the byte stream of SpecReader delivers
MaxReads == 2
\* capacity of the mpsc channel, scaled down from 128 so that it fills
ChanCap == 2

\* number of pieces the texts given to the sanitizer are made of
MaxPieces == 3
\* number of content blocks of the message given to convert_content_blocks
MaxBlocks == 4
\* number of process_chunk calls the driver of SpecDelta makes
MaxDeltas == 3

\* max_tokens of the upstream request when the client gives none
DEFAULT_MAX_TOKENS == 1024

None == <<>>
Some(x) == <<x>>
IsSome(o) == o # <<>>
Unwrap(o) == o[1]

(***************************************************************************)
(* Text sanitizer.                                                         *)
(***************************************************************************)
TAGS ==
  << <<"<","/","t","h","i","n","k","i","n","g",">">>,
     <<"<","t","h","i","n","k","i","n","g",">">>,
     <<"<","/","t","h","o","u","g","h","t",">">>,
     <<"<","t","h","o","u","g","h","t",">">>,
     <<"<","/","r","e","a","s","o","n","i","n","g",">">>,
     <<"<","r","e","a","s","o","n","i","n","g",">">>,
     <<"[","E","n","d"," ","o","f"," ","R","e","a","s","o","n","i","n","g","]">>,
     <<"[","R","e","a","s","o","n","i","n","g","]",":">>,
     <<"R","e","a","s","o","n","i","n","g",":">>,
     <<"T","h","o","u","g","h","t",":">>,
     <<"\n","\n">>,
     <<"\n">> >>

\* char::is_whitespace, restricted to the characters the model uses
IsWhitespace(c) == c \in {" ", "\n", "\t", "\r"}

UpperToLower ==
  [c \in {"A","B","C","D","E","F","G","H","I","J","K","L","M",
          "N","O","P","Q","R","S","T","U","V","W","X","Y","Z"} |->
     CASE c = "A" -> "a" [] c = "B" -> "b" [] c = "C" -> "c" [] c = "D" -> "d"
       [] c = "E" -> "e" [] c = "F" -> "f" [] c = "G" -> "g" [] c = "H" -> "h"
       [] c = "I" -> "i" [] c = "J" -> "j" [] c = "K" -> "k" [] c = "L" -> "l"
       [] c = "M" -> "m" [] c = "N" -> "n" [] c = "O" -> "o" [] c = "P" -> "p"
       [] c = "Q" -> "q" [] c = "R" -> "r" [] c = "S" -> "s" [] c = "T" -> "t"
       [] c = "U" -> "u" [] c = "V" -> "v" [] c = "W" -> "w" [] c = "X" -> "x"
       [] c = "Y" -> "y" [] c = "Z" -> "z"]

to_ascii_lowercase(s) ==
  [i \in 1..Len(s) |-> IF s[i] \in DOMAIN UpperToLower THEN UpperToLower[s[i]] ELSE s[i]]

starts_with(s, p) ==
  /\ Len(p) <= Len(s)
  /\ \A i \in 1..Len(p) : s[i] = p[i]

RECURSIVE trim_start(_)
trim_start(s) ==
  IF s # <<>> /\ IsWhitespace(Head(s)) THEN trim_start(Tail(s)) ELSE s

RECURSIVE trim_end(_)
trim_end(s) ==
  IF s # <<>> /\ IsWhitespace(s[Len(s)]) THEN trim_end(SubSeq(s, 1, Len(s) - 1)) ELSE s

trim(s) == trim_end(trim_start(s))

\* index of the first tag of TAGS that the trimmed text starts with, 0 if none
FirstTag(trimmed) ==
  LET hits == {k \in 1..Len(TAGS) :
                 starts_with(to_ascii_lowercase(trimmed), to_ascii_lowercase(TAGS[k]))}
  IN IF hits = {} THEN 0 ELSE CHOOSE k \in hits : \A j \in hits : k <= j

\* a sanitizer that strips one tag and does not loop
strip_one_tag(content) ==
  LET trimmed == trim_start(content)
      k == FirstTag(trimmed)
  IN IF k = 0 THEN trimmed
     ELSE trim_start(SubSeq(trimmed, Len(TAGS[k]) + 1, Len(trimmed)))

RECURSIVE strip_hallucinated_tags(_)
strip_hallucinated_tags(content) ==
  LET trimmed == trim_start(content)
      k == FirstTag(trimmed)
  IN IF k = 0 THEN trimmed
     ELSE strip_hallucinated_tags(SubSeq(trimmed, Len(TAGS[k]) + 1, Len(trimmed)))

\* the number of tags the loop of strip_hallucinated_tags strips
RECURSIVE strip_iterations(_)
strip_iterations(content) ==
  LET trimmed == trim_start(content)
      k == FirstTag(trimmed)
  IN IF k = 0 THEN 0
     ELSE 1 + strip_iterations(SubSeq(trimmed, Len(TAGS[k]) + 1, Len(trimmed)))

(***************************************************************************)
(* Frames (format_sse of a JSON event).                                    *)
(***************************************************************************)
Frame(type, index, kind, data, id, name, is_error, stop_reason, output_tokens) ==
  [type |-> type, index |-> index, kind |-> kind, data |-> data, id |-> id,
   name |-> name, is_error |-> is_error, stop_reason |-> stop_reason,
   output_tokens |-> output_tokens]

MessageStart == Frame("message_start", -1, "", <<>>, <<>>, <<>>, FALSE, "", 0)
BlockStart(index, kind, id, name, is_error) ==
  Frame("content_block_start", index, kind, <<>>, id, name, is_error, "", 0)
BlockDelta(index, kind, data) ==
  Frame("content_block_delta", index, kind, data, <<>>, <<>>, FALSE, "", 0)
BlockStop(index) == Frame("content_block_stop", index, "", <<>>, <<>>, <<>>, FALSE, "", 0)
MessageDelta(stop_reason, output_tokens) ==
  Frame("message_delta", -1, "", <<>>, <<>>, <<>>, FALSE, stop_reason, output_tokens)
MessageStop == Frame("message_stop", -1, "", <<>>, <<>>, <<>>, FALSE, "", 0)

\* map_stop_reason without the arm for "length"
map_stop_reason_without_length(finish_reason) ==
  CASE finish_reason = "stop" -> "end_turn"
    [] finish_reason = "tool_calls" -> "tool_use"
    [] finish_reason = "content_filter" -> "end_turn"
    [] OTHER -> "end_turn"

map_stop_reason(finish_reason) ==
  CASE finish_reason = "stop" -> "end_turn"
    [] finish_reason = "tool_calls" -> "tool_use"
    [] finish_reason = "length" -> "max_tokens"
    [] finish_reason = "content_filter" -> "end_turn"
    [] OTHER -> "end_turn"

\* base64(sha256(bytes)): an injective image of the hashed text
generate_signature(thinking_content) == <<"sha256">> \o thinking_content

(***************************************************************************)
(* StreamTransformer.  A call is threaded through r = [t |-> the           *)
(* transformer's fields, events |-> the frames pushed so far onto the      *)
(* events vector the call returns]; each method maps r to r after it.      *)
(***************************************************************************)
new ==
  [content_index |-> -1,
   in_thinking |-> FALSE,
   in_tool_call |-> FALSE,
   in_tool_result |-> FALSE,
   current_tool_id |-> <<>>,
   current_tool_name |-> <<>>,
   current_tool_args |-> <<>>,
   current_tool_result |-> <<>>,
   current_tool_result_id |-> <<>>,
   current_tool_result_is_error |-> FALSE,
   started |-> FALSE,
   input_tokens |-> 0,
   output_tokens |-> 0,
   last_finish_reason |-> None,
   tool_call_index |-> None,
   in_text_block |-> FALSE,
   finished |-> FALSE,
   thinking_content |-> <<>>]

\* let mut events = Vec::new()
Call(st) == [t |-> st, events |-> <<>>]

\* events.push(..)
Push(r, evs) == [t |-> r.t, events |-> r.events \o evs]

start_event(st) ==
  [t |-> [st EXCEPT !.started = TRUE], events |-> <<MessageStart>>]

\* the signature_delta pushed when a thinking block is closed
SignatureFrames(st) ==
  IF st.in_thinking
  THEN <<BlockDelta(st.content_index, "signature_delta",
                    generate_signature(st.thinking_content))>>
  ELSE <<>>

\* the content_block_stop pushed when any block is open
StopFrames(st) ==
  IF st.in_thinking \/ st.in_tool_call \/ st.in_text_block \/ st.in_tool_result
  THEN <<BlockStop(st.content_index)>>
  ELSE <<>>

\* close_current_block that forgets to clear in_text_block
close_current_block_keeps_text(r) ==
  [t |-> [r.t EXCEPT !.thinking_content = IF r.t.in_thinking THEN <<>> ELSE @,
                     !.in_thinking = FALSE,
                     !.in_tool_call = FALSE,
                     !.in_tool_result = FALSE],
   events |-> r.events \o SignatureFrames(r.t) \o StopFrames(r.t)]

close_current_block(r) ==
  [t |-> [r.t EXCEPT !.thinking_content = IF r.t.in_thinking THEN <<>> ELSE @,
                     !.in_thinking = FALSE,
                     !.in_tool_call = FALSE,
                     !.in_text_block = FALSE,
                     !.in_tool_result = FALSE],
   events |-> r.events \o SignatureFrames(r.t) \o StopFrames(r.t)]

\* message_delta and message_stop, as pushed by the [DONE] branch and by finish
TerminalFrames(st) ==
  <<MessageDelta(IF IsSome(st.last_finish_reason)
                 THEN map_stop_reason(Unwrap(st.last_finish_reason))
                 ELSE "end_turn",
                 st.output_tokens),
    MessageStop>>

\* process_thinking_content, after close_current_block: open the block
open_thinking(c) ==
  [t |-> [c.t EXCEPT !.in_thinking = TRUE,
                     !.thinking_content = <<>>,
                     !.content_index = @ + 1],
   events |-> c.events \o
              <<BlockStart(c.t.content_index + 1, "thinking", <<>>, <<>>, FALSE)>>]

\* a thinking_delta that keeps only the last fragment
thinking_delta_overwrites(r, reasoning) ==
  [t |-> [r.t EXCEPT !.thinking_content = reasoning],
   events |-> r.events \o <<BlockDelta(r.t.content_index, "thinking_delta", reasoning)>>]

\* process_thinking_content: accumulate and push the thinking_delta
thinking_delta(r, reasoning) ==
  [t |-> [r.t EXCEPT !.thinking_content = @ \o reasoning],
   events |-> r.events \o <<BlockDelta(r.t.content_index, "thinking_delta", reasoning)>>]

process_thinking_content(r, reasoning) ==
  IF reasoning = <<>> THEN r
  ELSE thinking_delta(IF ~r.t.in_thinking THEN open_thinking(close_current_block(r)) ELSE r,
                      reasoning)

\* process_tool_calls, an entry with an id, after close_current_block
open_tool_call(c, tc) ==
  [t |-> [c.t EXCEPT !.in_tool_call = TRUE,
                     !.tool_call_index = Some(tc.index),
                     !.current_tool_id = Unwrap(tc.id),
                     !.current_tool_name = IF IsSome(tc.name) THEN Unwrap(tc.name) ELSE <<>>,
                     !.current_tool_args = <<>>,
                     !.content_index = @ + 1],
   events |-> c.events \o
              <<BlockStart(c.t.content_index + 1, "tool_use", Unwrap(tc.id),
                           IF IsSome(tc.name) THEN Unwrap(tc.name) ELSE <<>>, FALSE)>>]

\* process_tool_calls, the argument delta of an entry
tool_call_arguments(r, tc) ==
  IF IsSome(tc.arguments) /\ Unwrap(tc.arguments) # <<>>
  THEN [t |-> [r.t EXCEPT !.current_tool_args = @ \o Unwrap(tc.arguments)],
        events |-> r.events \o
                   <<BlockDelta(r.t.content_index, "input_json_delta", Unwrap(tc.arguments))>>]
  ELSE r

\* one entry of delta.tool_calls: index (0 when absent), id, function.name and
\* function.arguments as optional strings
process_tool_call(r, tc) ==
  tool_call_arguments(IF IsSome(tc.id) THEN open_tool_call(close_current_block(r), tc) ELSE r,
                      tc)

RECURSIVE process_tool_calls(_, _)
process_tool_calls(r, tool_calls) ==
  IF tool_calls = <<>> THEN r
  ELSE process_tool_calls(process_tool_call(r, Head(tool_calls)), Tail(tool_calls))

\* delta.tool_call_id as a string, "" when absent
tool_use_id_of(delta) ==
  IF IsSome(delta.tool_call_id) THEN Unwrap(delta.tool_call_id) ELSE <<>>

\* delta.is_error as a bool, false when absent
is_error_of(delta) ==
  IF IsSome(delta.is_error) THEN Unwrap(delta.is_error) ELSE FALSE

\* open_tool_result that opens the block without ++content_index
open_tool_result_no_increment(c, delta) ==
  IF tool_use_id_of(delta) # <<>> /\ ~c.t.in_tool_result
  THEN [t |-> [c.t EXCEPT !.in_tool_result = TRUE,
                          !.current_tool_result_id = tool_use_id_of(delta),
                          !.current_tool_result = <<>>,
                          !.current_tool_result_is_error = is_error_of(delta)],
        events |-> c.events \o
                   <<BlockStart(c.t.content_index, "tool_result", tool_use_id_of(delta),
                                <<>>, is_error_of(delta))>>]
  ELSE c

\* process_tool_result_start, after close_current_block
open_tool_result(c, delta) ==
  IF tool_use_id_of(delta) # <<>> /\ ~c.t.in_tool_result
  THEN [t |-> [c.t EXCEPT !.in_tool_result = TRUE,
                          !.current_tool_result_id = tool_use_id_of(delta),
                          !.current_tool_result = <<>>,
                          !.current_tool_result_is_error = is_error_of(delta),
                          !.content_index = @ + 1],
        events |-> c.events \o
                   <<BlockStart(c.t.content_index + 1, "tool_result", tool_use_id_of(delta),
                                <<>>, is_error_of(delta))>>]
  ELSE c

process_tool_result_start(r, delta) == open_tool_result(close_current_block(r), delta)

process_tool_result_content(r, content) ==
  [t |-> [r.t EXCEPT !.current_tool_result = @ \o content],
   events |-> r.events \o <<BlockDelta(r.t.content_index, "content_delta", content)>>]

\* process_text_content, after close_current_block: open the block and push
\* the sanitized first fragment
open_text(c, filtered_content) ==
  [t |-> [c.t EXCEPT !.in_text_block = TRUE, !.content_index = @ + 1],
   events |-> c.events \o
              <<BlockStart(c.t.content_index + 1, "text", <<>>, <<>>, FALSE),
                BlockDelta(c.t.content_index + 1, "text_delta", filtered_content)>>]

\* a first fragment that closes the open block before it looks at the
\* sanitized text
first_text_fragment_closes_first(r, filtered_content) ==
  IF filtered_content # <<>>
  THEN open_text(close_current_block(r), filtered_content)
  ELSE close_current_block(r)

\* process_text_content when no text block is open
first_text_fragment(r, filtered_content) ==
  IF filtered_content # <<>>
  THEN open_text(close_current_block(r), filtered_content)
  ELSE r

\* process_text_content that sanitizes every fragment
process_text_content_always_strips(r, content) ==
  IF ~r.t.in_text_block
  THEN first_text_fragment(r, strip_hallucinated_tags(content))
  ELSE Push(r, <<BlockDelta(r.t.content_index, "text_delta",
                            strip_hallucinated_tags(content))>>)

process_text_content(r, content) ==
  IF ~r.t.in_text_block
  THEN first_text_fragment(r, strip_hallucinated_tags(content))
  ELSE Push(r, <<BlockDelta(r.t.content_index, "text_delta", content)>>)

\* the message_delta and message_stop pushed after close_current_block
terminal_events(c) == Push(c, TerminalFrames(c.t))

\* finish that does not test `finished`
finish_unguarded(st) == terminal_events(close_current_block(Call(st)))

finish(st) ==
  IF st.finished THEN Call(st)
  ELSE terminal_events(close_current_block(Call(st)))

\* choices loop: if let Some(fr) = choice.finish_reason
store_finish_reason(r, choice) ==
  IF IsSome(choice.finish_reason)
  THEN [r EXCEPT !.t.last_finish_reason = choice.finish_reason]
  ELSE r

\* choices loop: reasoning/thinking content
on_reasoning_content(r, delta) ==
  IF IsSome(delta.reasoning_content)
  THEN process_thinking_content(r, Unwrap(delta.reasoning_content))
  ELSE r

\* choices loop: tool calls
on_tool_calls(r, delta) ==
  IF IsSome(delta.tool_calls)
  THEN process_tool_calls(r, Unwrap(delta.tool_calls))
  ELSE r

\* choices loop: tool result start
on_tool_result(r, delta) ==
  IF IsSome(delta.role) /\ (Unwrap(delta.role) = "tool" \/ delta.has_tool_call_id)
  THEN process_tool_result_start(r, delta)
  ELSE r

\* choices loop: tool result content
on_tool_result_content(r, delta) ==
  IF r.t.in_tool_result /\ IsSome(delta.content) /\ Unwrap(delta.content) # <<>>
  THEN process_tool_result_content(r, Unwrap(delta.content))
  ELSE r

\* regular text content that does not test in_tool_result
on_text_content_unguarded(r, delta) ==
  IF IsSome(delta.content) /\ Unwrap(delta.content) # <<>>
  THEN process_text_content(r, Unwrap(delta.content))
  ELSE r

\* choices loop: regular text content
on_text_content(r, delta) ==
  IF IsSome(delta.content) /\ Unwrap(delta.content) # <<>> /\ ~r.t.in_tool_result
  THEN process_text_content(r, Unwrap(delta.content))
  ELSE r

\* the steps of a delta with the content steps first
process_delta_content_first(r, delta) ==
  on_tool_result(
    on_tool_calls(
      on_reasoning_content(
        on_text_content(
          on_tool_result_content(r, delta), delta), delta), delta), delta)

\* the body of the `for choice in choices` loop for a choice with a delta
process_delta(r, delta) ==
  on_text_content(
    on_tool_result_content(
      on_tool_result(
        on_tool_calls(
          on_reasoning_content(r, delta), delta), delta), delta), delta)

\* the body of the `for choice in choices` loop
process_choice(r, choice) ==
  IF ~IsSome(choice.delta) THEN r
  ELSE process_delta(store_finish_reason(r, choice), Unwrap(choice.delta))

RECURSIVE process_choices(_, _)
process_choices(r, choices) ==
  IF choices = <<>> THEN r
  ELSE process_choices(process_choice(r, Head(choices)), Tail(choices))

\* update_usage that takes an absent counter as 0
update_usage_defaults_zero(st, data) ==
  IF ~IsSome(data.usage) THEN st
  ELSE [st EXCEPT
          !.input_tokens = IF IsSome(Unwrap(data.usage).prompt_tokens)
                           THEN Unwrap(Unwrap(data.usage).prompt_tokens) ELSE 0,
          !.output_tokens = IF IsSome(Unwrap(data.usage).completion_tokens)
                            THEN Unwrap(Unwrap(data.usage).completion_tokens) ELSE 0]

\* usage.prompt_tokens / usage.completion_tokens, when present
update_usage(st, data) ==
  IF ~IsSome(data.usage) THEN st
  ELSE [st EXCEPT
          !.input_tokens = IF IsSome(Unwrap(data.usage).prompt_tokens)
                           THEN Unwrap(Unwrap(data.usage).prompt_tokens) ELSE @,
          !.output_tokens = IF IsSome(Unwrap(data.usage).completion_tokens)
                            THEN Unwrap(Unwrap(data.usage).completion_tokens) ELSE @]

\* process_chunk that closes the open block on a payload that does not parse
process_chunk_malformed_closes(st, data) ==
  IF data.kind = "done"
  THEN terminal_events(close_current_block(Call([st EXCEPT !.finished = TRUE])))
  ELSE IF data.kind = "bad" THEN close_current_block(Call(st))
  ELSE IF ~IsSome(data.choices) THEN Call(update_usage(st, data))
  ELSE process_choices(Call(update_usage(st, data)), Unwrap(data.choices))

\* data is a decoded payload: the literal [DONE], text that does not parse as
\* JSON, or a JSON document
process_chunk(st, data) ==
  IF data.kind = "done"
  THEN terminal_events(close_current_block(Call([st EXCEPT !.finished = TRUE])))
  ELSE IF data.kind = "bad" THEN Call(st)
  ELSE IF ~IsSome(data.choices) THEN Call(update_usage(st, data))
  ELSE process_choices(Call(update_usage(st, data)), Unwrap(data.choices))

(***************************************************************************)
(* Upstream payloads (dialect-C streaming deltas) fed to the translator.   *)
(***************************************************************************)
EmptyDelta ==
  [reasoning_content |-> None, tool_calls |-> None, role |-> None,
   has_tool_call_id |-> FALSE, tool_call_id |-> None, is_error |-> None,
   content |-> None]

Choice(delta, finish_reason) == [delta |-> Some(delta), finish_reason |-> finish_reason]
ToolCall(index, id, name, arguments) ==
  [index |-> index, id |-> id, name |-> name, arguments |-> arguments]
Usage(prompt_tokens, completion_tokens) ==
  [prompt_tokens |-> prompt_tokens, completion_tokens |-> completion_tokens]
Json(usage, choices) == [kind |-> "json", usage |-> usage, choices |-> choices]
Done == [kind |-> "done", usage |-> None, choices |-> None]
Malformed == [kind |-> "bad", usage |-> None, choices |-> None]

OneDelta(delta) == Json(None, Some(<<Choice(delta, None)>>))

\* {"choices":[{"delta":{"content":"\na"}}]}
P_text == OneDelta([EmptyDelta EXCEPT !.content = Some(<<"\n", "a">>)])
\* {"choices":[{"delta":{"content":" <Thinking>"}}]}
P_tag == OneDelta([EmptyDelta EXCEPT
                     !.content = Some(<<" ","<","T","h","i","n","k","i","n","g",">">>)])
\* {"choices":[{"delta":{"reasoning_content":"t"}}]}
P_think == OneDelta([EmptyDelta EXCEPT !.reasoning_content = Some(<<"t">>)])
\* {"choices":[{"delta":{"tool_calls":[{"index":0,"id":"A","function":{"name":"f"}}]}}]}
P_toolA == OneDelta([EmptyDelta EXCEPT
                       !.tool_calls = Some(<<ToolCall(0, Some(<<"A">>), Some(<<"f">>), None)>>)])
\* {"choices":[{"delta":{"tool_calls":[{"index":1,"id":"B","function":{"name":"g","arguments":"x"}}]}}]}
P_toolB == OneDelta([EmptyDelta EXCEPT
                       !.tool_calls = Some(<<ToolCall(1, Some(<<"B">>), Some(<<"g">>),
                                                      Some(<<"x">>))>>)])
\* {"choices":[{"delta":{"tool_calls":[{"index":0,"function":{"arguments":"y"}}]}}]}
P_args0 == OneDelta([EmptyDelta EXCEPT
                       !.tool_calls = Some(<<ToolCall(0, None, None, Some(<<"y">>))>>)])
\* {"choices":[{"delta":{"role":"tool","tool_call_id":"R","content":"c"}}]}
P_result == OneDelta([EmptyDelta EXCEPT !.role = Some("tool"),
                                        !.has_tool_call_id = TRUE,
                                        !.tool_call_id = Some(<<"R">>),
                                        !.content = Some(<<"c">>)])
\* {"choices":[{"delta":{},"finish_reason":"tool_calls"}],"usage":{"completion_tokens":5}}
P_finish == Json(Some(Usage(None, Some(5))), Some(<<Choice(EmptyDelta, Some("tool_calls"))>>))
\* {"choices":[{"delta":{"reasoning_content":"u","content":"b"}}]}
P_think_text == OneDelta([EmptyDelta EXCEPT !.reasoning_content = Some(<<"u">>),
                                            !.content = Some(<<"b">>)])

\* {"choices":[{"finish_reason":"length"}]}
P_length_no_delta == Json(None, Some(<<[delta |-> None, finish_reason |-> Some("length")]>>))
\* {"choices":[{"delta":{},"finish_reason":"stop"}],"usage":{"prompt_tokens":9}}
P_stop == Json(Some(Usage(Some(9), None)), Some(<<Choice(EmptyDelta, Some("stop"))>>))
\* {"usage":{"prompt_tokens":3,"completion_tokens":7}}
P_usage_only == Json(Some(Usage(Some(3), Some(7))), None)
\* {"choices":[],"usage":{"completion_tokens":2}}
P_usage_no_choice == Json(Some(Usage(None, Some(2))), Some(<<>>))

\* {"choices":[{"delta":{"tool_calls":[{"index":0,"id":"","function":{"arguments":"z"}}]}}]}
P_tool_empty_id == OneDelta([EmptyDelta EXCEPT
                               !.tool_calls = Some(<<ToolCall(0, Some(<<>>), None,
                                                              Some(<<"z">>))>>)])
\* {"choices":[{"delta":{"tool_call_id":"R2"}}]}
P_result_no_role == OneDelta([EmptyDelta EXCEPT !.has_tool_call_id = TRUE,
                                                !.tool_call_id = Some(<<"R2">>)])
\* {"choices":[{"delta":{"role":"tool"}}]}
P_tool_role_only == OneDelta([EmptyDelta EXCEPT !.role = Some("tool")])
\* {"choices":[{"delta":{"reasoning_content":"u","tool_calls":[{"index":0,"id":"C",
\*   "function":{"name":"h","arguments":"w"}}],"role":"assistant","tool_call_id":"R3",
\*   "content":"d"}}]}
P_all == OneDelta([EmptyDelta EXCEPT
                     !.reasoning_content = Some(<<"u">>),
                     !.tool_calls = Some(<<ToolCall(0, Some(<<"C">>), Some(<<"h">>),
                                                    Some(<<"w">>))>>),
                     !.role = Some("assistant"),
                     !.has_tool_call_id = TRUE,
                     !.tool_call_id = Some(<<"R3">>),
                     !.content = Some(<<"d">>)])
\* {"choices":[{"delta":{"reasoning_content":"v","tool_calls":[{"index":0,"id":"D",
\*   "function":{"name":"k"}}],"content":"e"}}]}
P_think_tool_text == OneDelta([EmptyDelta EXCEPT
                                 !.reasoning_content = Some(<<"v">>),
                                 !.tool_calls = Some(<<ToolCall(0, Some(<<"D">>),
                                                                Some(<<"k">>), None)>>),
                                 !.content = Some(<<"e">>)])

Payloads ==
  {Done, Malformed, P_text, P_tag, P_think, P_toolA, P_toolB, P_args0, P_result,
   P_finish, P_think_text}

\* payloads that carry finish_reason and usage, with and without choices
FinalPayloads ==
  {Done, Malformed, P_text, P_think, P_finish, P_length_no_delta, P_stop,
   P_usage_only, P_usage_no_choice}

\* payloads for the transitions of one delta: tool calls with, without and
\* with an empty id, tool-result markers with and without role, and deltas
\* that carry several fields
DeltaPayloads ==
  {Done, P_text, P_think, P_toolA, P_tool_empty_id, P_args0, P_result,
   P_result_no_role, P_tool_role_only, P_all, P_think_tool_text}

(***************************************************************************)
(* State.                                                                  *)
(***************************************************************************)
VARIABLES
  t,          \* the StreamTransformer
  trace,      \* every frame the transformer has returned, in order
  fed,        \* every payload passed to process_chunk, in order
  pc,         \* Spec: position of the transformer's caller
  rpc,        \* SpecReader: position of the reader task
  phase,      \* SpecReader: "start", "loop" (while let) or "flush" (leftover)
  buffer,     \* SpecReader: the task's String buffer
  lines,      \* SpecReader: lines of the current frame not yet looked at
  pending,    \* SpecReader: events of the current call not yet sent
  reads,      \* SpecReader: chunks delivered by the upstream byte stream
  stream_end, \* SpecReader: "open", "eof" or "error"
  channel,    \* SpecReader: frames held by the mpsc channel
  rx_open,    \* SpecReader: the receiver (response body) still exists
  received,   \* SpecReader: frames the client has received
  body_ended, \* SpecReader: the response body has ended
  arg,        \* the argument of the function a specification calls
  ret         \* what that call returned, None before it

vars == <<t, trace, fed, pc, rpc, phase, buffer, lines, pending, reads,
          stream_end, channel, rx_open, received, body_ended, arg, ret>>

callVars == <<arg, ret>>

readerVars == <<rpc, phase, buffer, lines, pending, reads, stream_end, channel,
                rx_open, received, body_ended>>

(***************************************************************************)
(* Spec: one StreamTransformer driven through its public interface:        *)
(* start_event once, process_chunk once per payload, finish at stream end. *)
(***************************************************************************)
Init ==
  /\ t = new
  /\ trace = <<>>
  /\ fed = <<>>
  /\ pc = "new"
  /\ rpc = "idle"
  /\ phase = "start"
  /\ buffer = <<>>
  /\ lines = <<>>
  /\ pending = <<>>
  /\ reads = 0
  /\ stream_end = "open"
  /\ channel = <<>>
  /\ rx_open = TRUE
  /\ received = <<>>
  /\ body_ended = FALSE
  /\ arg = <<>>
  /\ ret = None

\* a call returned r: the transformer is as the call left it, the caller has
\* the returned frames
Returned(r) ==
  /\ t' = r.t
  /\ trace' = trace \o r.events

StartEvent ==
  /\ pc = "new"
  /\ Returned(start_event(t))
  /\ pc' = "streaming"
  /\ UNCHANGED fed
  /\ UNCHANGED readerVars
  /\ UNCHANGED callVars

ProcessChunk ==
  /\ pc = "streaming"
  /\ Len(fed) < MaxPayloads
  /\ \E data \in Payloads :
       /\ Returned(process_chunk(t, data))
       /\ fed' = Append(fed, data)
  /\ UNCHANGED pc
  /\ UNCHANGED readerVars
  /\ UNCHANGED callVars

\* process_chunk on a payload of FinalPayloads
ProcessFinalChunk ==
  /\ pc = "streaming"
  /\ Len(fed) < MaxPayloads
  /\ \E data \in FinalPayloads :
       /\ Returned(process_chunk(t, data))
       /\ fed' = Append(fed, data)
  /\ UNCHANGED pc
  /\ UNCHANGED readerVars
  /\ UNCHANGED callVars

\* process_chunk on a payload of DeltaPayloads
ProcessDeltaChunk ==
  /\ pc = "streaming"
  /\ Len(fed) < MaxDeltas
  /\ \E data \in DeltaPayloads :
       /\ Returned(process_chunk(t, data))
       /\ fed' = Append(fed, data)
  /\ UNCHANGED pc
  /\ UNCHANGED readerVars
  /\ UNCHANGED callVars

Finish ==
  /\ pc = "streaming"
  /\ Returned(finish(t))
  /\ pc' = "ended"
  /\ UNCHANGED fed
  /\ UNCHANGED readerVars
  /\ UNCHANGED callVars

Next == StartEvent \/ ProcessChunk \/ Finish

Spec == Init /\ [][Next]_vars

NextFinal == StartEvent \/ ProcessFinalChunk \/ Finish

\* the same driver over the payloads that carry finish_reason and usage
SpecFinal == Init /\ [][NextFinal]_vars

NextDelta == StartEvent \/ ProcessDeltaChunk \/ Finish

\* the same driver over the payloads that exercise the transitions of a delta
SpecDelta == Init /\ [][NextDelta]_vars

(***************************************************************************)
(* Reading a frame trace.                                                  *)
(***************************************************************************)
RECURSIVE Flatten(_)
Flatten(ss) == IF ss = <<>> THEN <<>> ELSE Head(ss) \o Flatten(Tail(ss))

Count(tr, type) == Cardinality({i \in 1..Len(tr) : tr[i].type = type})

IsStart(f) == f.type = "content_block_start"
IsStop(f) == f.type = "content_block_stop"
IsDelta(f) == f.type = "content_block_delta"

StartsOf(tr) == SelectSeq(tr, IsStart)

\* the start at position i is still unmatched just before position j
OpenBetween(tr, i, j) ==
  /\ i < j
  /\ IsStart(tr[i])
  /\ \A k \in (i + 1)..(j - 1) : ~(IsStop(tr[k]) /\ tr[k].index = tr[i].index)

\* delta types a block of the given kind may carry
DeltaKinds(kind) ==
  CASE kind = "text" -> {"text_delta"}
    [] kind = "tool_use" -> {"input_json_delta"}
    [] kind = "thinking" -> {"thinking_delta", "signature_delta"}
    [] kind = "tool_result" -> {"content_delta"}
    [] OTHER -> {}

\* the trace is complete: the last call was process_chunk([DONE]) or finish()
Terminated ==
  \/ pc = "ended"
  \/ pc = "streaming" /\ fed # <<>> /\ fed[Len(fed)].kind = "done"

(***************************************************************************)
(* C1.  After start_event, any payloads and finish, the trace has exactly  *)
(* one message_start, which is first, exactly one message_delta and        *)
(* exactly one message_stop, which is last and directly follows the        *)
(* message_delta -- also when payloads or a second [DONE] follow a [DONE]. *)
(***************************************************************************)
C1_SingleEnvelope ==
  pc = "ended" =>
    /\ Count(trace, "message_start") = 1
    /\ trace[1].type = "message_start"
    /\ Count(trace, "message_delta") = 1
    /\ Count(trace, "message_stop") = 1
    /\ trace[Len(trace)].type = "message_stop"
    /\ trace[Len(trace) - 1].type = "message_delta"

(***************************************************************************)
(* C3.  In a trace terminated by [DONE] or by finish(), every              *)
(* content_block_start{i} is followed by exactly one content_block_stop{i},*)
(* every stop closes an unmatched start of its index, and no start lies    *)
(* between a start and its stop.                                           *)
(***************************************************************************)
C3_BlocksBracketed ==
  Terminated =>
    /\ \A i \in 1..Len(trace) :
         IsStart(trace[i]) =>
           /\ Cardinality({j \in 1..Len(trace) :
                             IsStop(trace[j]) /\ trace[j].index = trace[i].index}) = 1
           /\ \E j \in (i + 1)..Len(trace) :
                /\ IsStop(trace[j]) /\ trace[j].index = trace[i].index
                /\ \A k \in (i + 1)..(j - 1) : ~IsStart(trace[k])
    /\ \A j \in 1..Len(trace) :
         IsStop(trace[j]) =>
           \E i \in 1..(j - 1) :
             OpenBetween(trace, i, j) /\ trace[i].index = trace[j].index

(***************************************************************************)
(* C4.  The k-th content_block_start carries index k-1, and content_index  *)
(* is the number of content_block_start frames emitted so far minus one.   *)
(***************************************************************************)
C4_IndicesContiguous ==
  LET starts == StartsOf(trace)
  IN /\ \A k \in 1..Len(starts) : starts[k].index = k - 1
     /\ t.content_index = Len(starts) - 1

C4_Witness ==
  LET starts == StartsOf(trace)
  IN /\ Len(starts) >= 3
     /\ \E a, b \in 1..Len(starts) :
          starts[a].kind = "tool_result" /\ starts[b].kind = "thinking" /\ a < b

(***************************************************************************)
(* C5.  Every content_block_delta lies strictly between the start and the  *)
(* stop of the block whose index it carries, and its delta type is one the *)
(* kind of that block admits.                                              *)
(***************************************************************************)
C5_DeltasInsideTheirBlock ==
  \A i \in 1..Len(trace) :
    IsDelta(trace[i]) =>
      \E j \in 1..(i - 1) :
        /\ OpenBetween(trace, j, i)
        /\ trace[j].index = trace[i].index
        /\ trace[i].kind \in DeltaKinds(trace[j].kind)

(***************************************************************************)
(* C6.  At most one of in_text_block, in_thinking, in_tool_call and        *)
(* in_tool_result is true.                                                 *)
(***************************************************************************)
OpenFlags(st) ==
  {f \in {"in_text_block", "in_thinking", "in_tool_call", "in_tool_result"} : st[f]}

C6_AtMostOneOpen == Cardinality(OpenFlags(t)) <= 1

C6_Witness ==
  /\ t.in_tool_call
  /\ t.content_index >= 2
  /\ \E i, j \in 1..Len(trace) :
       /\ IsStart(trace[i]) /\ trace[i].kind = "text"
       /\ IsStart(trace[j]) /\ trace[j].kind = "thinking"

(***************************************************************************)
(* C7.  In a complete trace every thinking block has exactly one           *)
(* signature_delta, placed directly before the block's content_block_stop, *)
(* and every signature_delta belongs to a thinking block.                  *)
(***************************************************************************)
IsSignature(f) == IsDelta(f) /\ f.kind = "signature_delta"

C7_ThinkingSigned ==
  pc = "ended" =>
    /\ \A i \in 1..Len(trace) :
         (IsStart(trace[i]) /\ trace[i].kind = "thinking") =>
           /\ Cardinality({j \in 1..Len(trace) :
                             IsSignature(trace[j]) /\ trace[j].index = trace[i].index}) = 1
           /\ \E j \in (i + 2)..Len(trace) :
                /\ IsStop(trace[j]) /\ trace[j].index = trace[i].index
                /\ IsSignature(trace[j - 1]) /\ trace[j - 1].index = trace[i].index
    /\ \A j \in 1..Len(trace) :
         IsSignature(trace[j]) =>
           \E i \in 1..(j - 1) :
             /\ OpenBetween(trace, i, j)
             /\ trace[i].index = trace[j].index
             /\ trace[i].kind = "thinking"

(***************************************************************************)
(* C8.  For every upstream tool call, the partial_json of the              *)
(* input_json_delta frames inside its tool_use block concatenate to the    *)
(* function.arguments fragments that upstream sent for that tool call.     *)
(***************************************************************************)
RECURSIVE ChoicesEntries(_)
ChoicesEntries(choices) ==
  IF choices = <<>> THEN <<>>
  ELSE LET c == Head(choices)
       IN (IF IsSome(c.delta) /\ IsSome(Unwrap(c.delta).tool_calls)
           THEN Unwrap(Unwrap(c.delta).tool_calls) ELSE <<>>)
          \o ChoicesEntries(Tail(choices))

RECURSIVE UpstreamEntries(_)
UpstreamEntries(payloads) ==
  IF payloads = <<>> THEN <<>>
  ELSE LET p == Head(payloads)
       IN (IF p.kind = "json" /\ IsSome(p.choices)
           THEN ChoicesEntries(Unwrap(p.choices)) ELSE <<>>)
          \o UpstreamEntries(Tail(payloads))

\* the arguments upstream sent for the tool call that entry p of es starts:
\* those of the entries with its index, up to the next entry that starts a
\* tool call with that index
UpstreamArgs(es, p) ==
  Flatten([q \in 1..(Len(es) - p + 1) |->
             LET e == es[p + q - 1]
             IN IF /\ e.index = es[p].index
                   /\ \A m \in (p + 1)..(p + q - 1) :
                        ~(IsSome(es[m].id) /\ es[m].index = es[p].index)
                   /\ IsSome(e.arguments)
                THEN Unwrap(e.arguments) ELSE <<>>])

\* the partial_json emitted inside the n-th tool_use block of tr
EmittedArgs(tr, n) ==
  LET pos == {i \in 1..Len(tr) : IsStart(tr[i]) /\ tr[i].kind = "tool_use"}
      i0 == CHOOSE i \in pos : Cardinality({j \in pos : j <= i}) = n
  IN Flatten([q \in 1..(Len(tr) - i0) |->
                LET f == tr[i0 + q]
                IN IF /\ OpenBetween(tr, i0, i0 + q)
                      /\ IsDelta(f) /\ f.kind = "input_json_delta"
                      /\ f.index = tr[i0].index
                   THEN f.data ELSE <<>>])

C8_ToolArgsPreserved ==
  LET es == UpstreamEntries(fed)
  IN \A p \in 1..Len(es) :
       IsSome(es[p].id) =>
         EmittedArgs(trace, Cardinality({m \in 1..p : IsSome(es[m].id)}))
           = UpstreamArgs(es, p)

(***************************************************************************)
(* SpecReader: the reader task spawned by the /v1/messages handler, the    *)
(* bounded channel it writes to and the response body that drains it.      *)
(*                                                                         *)
(* Upstream bytes are sequences of symbols: "data:", " ", "\n", ":" (a     *)
(* comment line), the two bytes of a two-byte UTF-8 character, "[DONE]",   *)
(* and one symbol per JSON document.                                       *)
(***************************************************************************)
Documents == {"{text}", "{think}", "{toolA}", "{finish}"}

DocumentOf(sym) ==
  CASE sym = "{text}" -> P_text
    [] sym = "{think}" -> P_think
    [] sym = "{toolA}" -> P_toolA
    [] sym = "{finish}" -> P_finish

\* what process_chunk makes of its argument: the [DONE] literal, a JSON
\* document, or text serde_json rejects.  The symbols "{content:" .. "}"
\* around characters are the document {"choices":[{"delta":{"content":".."}}]}
\* with those characters as its content string
Parse(data) ==
  IF trim(data) = <<"[DONE]">> THEN Done
  ELSE IF Len(data) = 1 /\ data[1] \in Documents THEN DocumentOf(data[1])
  ELSE IF Len(data) >= 2 /\ data[1] = "{content:" /\ data[Len(data)] = "}"
       THEN OneDelta([EmptyDelta EXCEPT !.content = Some(SubSeq(data, 2, Len(data) - 1))])
  ELSE Malformed

\* String::from_utf8_lossy on one chunk: a lead byte followed by its
\* continuation byte is a character, a stray byte becomes U+FFFD
RECURSIVE from_utf8_lossy(_)
from_utf8_lossy(chunk) ==
  IF chunk = <<>> THEN <<>>
  ELSE IF Head(chunk) = "\\xC3" /\ Len(chunk) >= 2 /\ chunk[2] = "\\xA9"
       THEN <<"e'">> \o from_utf8_lossy(Tail(Tail(chunk)))
  ELSE IF Head(chunk) \in {"\\xC3", "\\xA9"}
       THEN <<"U+FFFD">> \o from_utf8_lossy(Tail(chunk))
  ELSE <<Head(chunk)>> \o from_utf8_lossy(Tail(chunk))

\* buffer.find("\n\n"): position of the first blank line, 0 if none
find_blank_line(buf) ==
  LET hits == {i \in 1..(Len(buf) - 1) : buf[i] = "\n" /\ buf[i + 1] = "\n"}
  IN IF hits = {} THEN 0 ELSE CHOOSE i \in hits : \A j \in hits : i <= j

\* str::lines
RECURSIVE split_lines(_, _)
split_lines(text, cur) ==
  IF text = <<>> THEN (IF cur = <<>> THEN <<>> ELSE <<cur>>)
  ELSE IF Head(text) = "\n"
       THEN <<IF cur # <<>> /\ cur[Len(cur)] = "\r"
              THEN SubSeq(cur, 1, Len(cur) - 1) ELSE cur>>
            \o split_lines(Tail(text), <<>>)
  ELSE split_lines(Tail(text), Append(cur, Head(text)))

str_lines(text) == split_lines(text, <<>>)

\* l.strip_prefix("data: ")
strip_prefix(l) ==
  IF Len(l) >= 2 /\ l[1] = "data:" /\ l[2] = " "
  THEN Some(SubSeq(l, 3, Len(l))) ELSE None

\* tx.send(ev) accepted by the channel
tx_send_reversed(chan, ev) == <<ev>> \o chan

tx_send(chan, ev) == Append(chan, ev)

\* a channel that always has a free slot
has_capacity_unbounded(chan) == TRUE

\* the bounded channel has a free permit: tx.send completes only then
has_capacity(chan) == Len(chan) < ChanCap

\* the task's locals and the transformer it owns
ReaderState ==
  [rpc |-> rpc, phase |-> phase, buffer |-> buffer, lines |-> lines,
   pending |-> pending, t |-> t, trace |-> trace, fed |-> fed]

\* let events = transformer.process_chunk(payload), r being what it returned
called_process_chunk(s, payload, r) ==
  [s EXCEPT !.lines = Tail(@),
            !.t = r.t,
            !.pending = r.events,
            !.trace = @ \o r.events,
            !.fed = Append(@, payload)]

\* a data line: transformer.process_chunk(data.trim())
data_line(s, payload) == called_process_chunk(s, payload, process_chunk(s.t, payload))

\* one turn of `for l in line.lines()`, data being l.strip_prefix("data: ")
next_line(s, data) ==
  IF IsSome(data)
  THEN data_line(s, Parse(trim(Unwrap(data))))
  ELSE [s EXCEPT !.lines = Tail(@)]

\* the task runs from one await to the next: it stops at the tx.send of the
\* next event, at stream.next(), or at the end of the task
RECURSIVE RunToAwait(_)
RunToAwait(s) ==
  IF s.pending # <<>> THEN [s EXCEPT !.rpc = "send"]
  ELSE IF s.lines # <<>>
  THEN RunToAwait(next_line(s, strip_prefix(Head(s.lines))))
  ELSE IF s.phase = "loop" /\ find_blank_line(s.buffer) # 0
  THEN LET pos == find_blank_line(s.buffer)
       IN RunToAwait([s EXCEPT !.lines = str_lines(SubSeq(s.buffer, 1, pos - 1)),
                               !.buffer = SubSeq(@, pos + 2, Len(@))])
  ELSE [s EXCEPT !.rpc = IF s.phase = "flush" THEN "done" ELSE "read"]

\* let start = transformer.start_event(), r being what it returned
started(s, r) ==
  [s EXCEPT !.rpc = "send", !.t = r.t, !.pending = r.events, !.trace = r.events]

\* tx.send(..).await returned Ok
send_ok(s) ==
  RunToAwait([s EXCEPT !.pending = Tail(@),
                       !.phase = IF @ = "start" THEN "loop" ELSE @])

\* a send error that is ignored: the event is dropped and the task goes on
send_err_ignored(s) == send_ok(s)

\* tx.send(..).await returned Err: `return`
send_err(s) == [s EXCEPT !.rpc = "aborted"]

\* stream.next() returned Some(Ok(chunk))
read_chunk(s, chunk) ==
  RunToAwait([s EXCEPT !.buffer = @ \o from_utf8_lossy(chunk)])

\* the end of the stream leaves the task at stream.next()
read_end_polls_again(s) == [s EXCEPT !.rpc = "read"]

\* stream.next() returned None or Some(Err(_)): leave the loop, flush buffer
read_end(s) ==
  RunToAwait([s EXCEPT !.phase = "flush",
                       !.lines = IF s.buffer # <<>> THEN str_lines(s.buffer) ELSE <<>>])

Install(s) ==
  /\ rpc' = s.rpc
  /\ phase' = s.phase
  /\ buffer' = s.buffer
  /\ lines' = s.lines
  /\ pending' = s.pending
  /\ t' = s.t
  /\ trace' = s.trace
  /\ fed' = s.fed

Chunk(doc) == <<"data:", " ", doc, "\n", "\n">>

Chunks ==
  { Chunk("{text}"),
    Chunk("{think}") \o Chunk("[DONE]"),
    <<"data:", " ", "{text}", "\n">>,
    <<"\n">>,
    Chunk("[DONE]"),
    <<":", "\n">> \o Chunk("{toolA}") }

InitReader ==
  /\ t = new
  /\ trace = <<>>
  /\ fed = <<>>
  /\ pc = "new"
  /\ rpc = "spawned"
  /\ phase = "start"
  /\ buffer = <<>>
  /\ lines = <<>>
  /\ pending = <<>>
  /\ reads = 0
  /\ stream_end = "open"
  /\ channel = <<>>
  /\ rx_open = TRUE
  /\ received = <<>>
  /\ body_ended = FALSE
  /\ arg = <<>>
  /\ ret = None

\* StreamTransformer::new, start_event, up to the first tx.send
ReaderStart ==
  /\ rpc = "spawned"
  /\ Install(started(ReaderState, start_event(new)))
  /\ UNCHANGED <<pc, arg, ret, reads, stream_end, channel, rx_open, received, body_ended>>

\* tx.send(Ok(event)).await: suspended while the channel is full
ReaderSend ==
  /\ rpc = "send"
  /\ \/ /\ ~rx_open
        /\ Install(send_err(ReaderState))
        /\ UNCHANGED channel
     \/ /\ rx_open
        /\ has_capacity(channel)
        /\ channel' = tx_send(channel, Head(pending))
        /\ Install(send_ok(ReaderState))
  /\ UNCHANGED <<pc, arg, ret, reads, stream_end, rx_open, received, body_ended>>

\* stream.next().await yields a chunk
ReaderReadChunk ==
  /\ rpc = "read"
  /\ reads < MaxReads
  /\ \E chunk \in Chunks : Install(read_chunk(ReaderState, chunk))
  /\ reads' = reads + 1
  /\ UNCHANGED <<pc, arg, ret, stream_end, channel, rx_open, received, body_ended>>

\* stream.next().await yields None, or Some(Err(_)) and the loop breaks
ReaderReadEnd ==
  /\ rpc = "read"
  /\ \E how \in {"eof", "error"} : stream_end' = how
  /\ Install(read_end(ReaderState))
  /\ UNCHANGED <<pc, arg, ret, reads, channel, rx_open, received, body_ended>>

\* the response body polls the ReceiverStream and gets a frame
ClientReceive ==
  /\ rx_open
  /\ channel # <<>>
  /\ received' = Append(received, Head(channel))
  /\ channel' = Tail(channel)
  /\ UNCHANGED <<t, trace, fed, pc, arg, ret, rpc, phase, buffer, lines, pending,
                 reads, stream_end, rx_open, body_ended>>

\* the client goes away: the body and its receiver are dropped
ClientDisconnect ==
  /\ rx_open
  /\ ~body_ended
  /\ rx_open' = FALSE
  /\ channel' = <<>>
  /\ UNCHANGED <<t, trace, fed, pc, arg, ret, rpc, phase, buffer, lines, pending,
                 reads, stream_end, received, body_ended>>

\* the sender is dropped and the channel is drained: the body ends
BodyEnd ==
  /\ rx_open
  /\ ~body_ended
  /\ rpc = "done"
  /\ channel = <<>>
  /\ body_ended' = TRUE
  /\ UNCHANGED <<t, trace, fed, pc, arg, ret, rpc, phase, buffer, lines, pending,
                 reads, stream_end, channel, rx_open, received>>

NextReader ==
  \/ ReaderStart
  \/ ReaderSend
  \/ ReaderReadChunk
  \/ ReaderReadEnd
  \/ ClientReceive
  \/ ClientDisconnect
  \/ BodyEnd

SpecReader == InitReader /\ [][NextReader]_vars

IsPrefix(a, b) == Len(a) <= Len(b) /\ SubSeq(b, 1, Len(a)) = a

NoDoneProcessed == \A i \in 1..Len(fed) : fed[i].kind # "done"

\* the blocks of tr that have a start and no stop
OpenBlocks(tr) ==
  {i \in 1..Len(tr) : IsStart(tr[i]) /\ OpenBetween(tr, i, Len(tr) + 1)}

(***************************************************************************)
(* C2.  When the upstream byte stream ends, normally or by a read error,   *)
(* and no [DONE] was processed, finish() runs: before the body ends the    *)
(* client has received the stop of every open block, then message_delta,   *)
(* then message_stop.                                                      *)
(***************************************************************************)
C2_FinishOnStreamEnd ==
  (body_ended /\ NoDoneProcessed) =>
    /\ Len(received) >= 3
    /\ received[Len(received)].type = "message_stop"
    /\ received[Len(received) - 1].type = "message_delta"
    /\ OpenBlocks(received) = {}

(***************************************************************************)
(* C9.  The frames the client has received are a prefix of the frames the  *)
(* reader task produced (message_start, then the frames of each            *)
(* process_chunk call in call order and list order); the frames still in   *)
(* the channel continue that prefix.                                       *)
(***************************************************************************)
C9_ClientSeesPrefix ==
  /\ IsPrefix(received, trace)
  /\ rx_open => IsPrefix(received \o channel, trace)

C9_Witness ==
  /\ Len(received) >= 3
  /\ Len(channel) >= 2
  /\ Len(trace) > Len(received) + Len(channel)
  /\ Len(fed) >= 2

(***************************************************************************)
(* C10.  A failed send ends the reader task at once: the step that finds   *)
(* the receiver gone is the task's return, and that step and all later     *)
(* ones call process_chunk no more, read no chunk, send no frame and       *)
(* produce no message_delta or message_stop.                               *)
(***************************************************************************)
C10_AbortOnSendError ==
  [][ /\ (rpc = "send" /\ ~rx_open) => rpc' = "aborted"
      /\ (rpc = "aborted" \/ rpc' = "aborted") =>
            /\ rpc' = "aborted"
            /\ UNCHANGED <<t, trace, fed, reads, stream_end, channel, received>> ]_vars

C10_Witness ==
  /\ rpc = "aborted"
  /\ Len(pending) >= 2
  /\ reads < MaxReads
  /\ stream_end = "open"
  /\ OpenBlocks(trace) # {}
  /\ Count(trace, "message_stop") = 0

(***************************************************************************)
(* C11.  The channel never holds more than its capacity of undelivered     *)
(* frames, and the reader task is at stream.next() only when every frame   *)
(* produced from the data read so far has been accepted by the channel: a  *)
(* full channel suspends the task at tx.send, and with it upstream reads.  *)
(***************************************************************************)
C11_Backpressure ==
  /\ Len(channel) <= ChanCap
  /\ rpc = "read" => pending = <<>> /\ lines = <<>>
  /\ (rpc = "read" /\ rx_open) => received \o channel = trace
  /\ (rpc = "send" /\ rx_open) =>
        received \o channel \o pending = trace

\* the reader is suspended at tx.send on a full channel while upstream has
\* more chunks to deliver
C11_Witness ==
  /\ rpc = "send"
  /\ rx_open
  /\ Len(channel) = ChanCap
  /\ Len(pending) >= 2
  /\ reads >= 1
  /\ reads < MaxReads
  /\ stream_end = "open"

(***************************************************************************)
(* Replaying a list of payloads through a fresh transformer.               *)
(***************************************************************************)
\* the call that returned r2 follows the calls that returned r
Then(r, r2) == [t |-> r2.t, events |-> r.events \o r2.events]

RECURSIVE Replay(_, _)
Replay(r, payloads) ==
  IF payloads = <<>> THEN r
  ELSE Replay(Then(r, process_chunk(r.t, Head(payloads))), Tail(payloads))

IsParsed(p) == p.kind # "bad"

(***************************************************************************)
(* C12.  A payload that is not [DONE] and does not parse as JSON returns   *)
(* no frames and changes no field of the transformer: the transformer and  *)
(* the frames returned so far are those of the same payload sequence with  *)
(* the malformed payloads left out.                                        *)
(***************************************************************************)
C12_MalformedDiscarded ==
  /\ process_chunk(t, Malformed) = Call(t)
  /\ pc = "streaming" =>
        Replay(start_event(new), SelectSeq(fed, IsParsed)) = [t |-> t, events |-> trace]

\* a malformed payload arrived while a block was open and payloads that
\* produce frames followed it
C12_Witness ==
  /\ pc = "streaming"
  /\ Len(fed) >= 3
  /\ \E i \in 2..(Len(fed) - 1) :
       /\ fed[i].kind = "bad"
       /\ fed[i - 1] = P_think
       /\ fed[i + 1] = P_think_text
  /\ t.in_text_block

(***************************************************************************)
(* Reading the payloads fed so far.                                        *)
(***************************************************************************)
\* the payloads before the first [DONE]
BeforeDone(payloads) ==
  LET dones == {i \in 1..Len(payloads) : payloads[i].kind = "done"}
  IN IF dones = {} THEN payloads
     ELSE SubSeq(payloads, 1, (CHOOSE i \in dones : \A j \in dones : i <= j) - 1)

\* every element of the choices arrays of the payloads, in order
RECURSIVE UpstreamChoices(_)
UpstreamChoices(payloads) ==
  IF payloads = <<>> THEN <<>>
  ELSE (IF Head(payloads).kind = "json" /\ IsSome(Head(payloads).choices)
        THEN Unwrap(Head(payloads).choices) ELSE <<>>)
       \o UpstreamChoices(Tail(payloads))

HasFinishReason(choice) == IsSome(choice.finish_reason)

\* the finish_reason of the last choices element that has one
LastFinishReason(payloads) ==
  LET cs == SelectSeq(UpstreamChoices(payloads), HasFinishReason)
  IN IF cs = <<>> THEN None ELSE cs[Len(cs)].finish_reason

\* the first message_delta of the trace
TerminalDelta(tr) ==
  LET ds == {i \in 1..Len(tr) : tr[i].type = "message_delta"}
  IN tr[CHOOSE i \in ds : \A j \in ds : i <= j]

(***************************************************************************)
(* C13.  Every choices element with a string finish_reason has it stored   *)
(* as last_finish_reason, and the terminal message_delta carries the       *)
(* mapping of the last finish_reason seen before termination, or end_turn  *)
(* when none was seen.                                                     *)
(***************************************************************************)
C13_FinishReasonStored ==
  /\ t.last_finish_reason = LastFinishReason(fed)
  /\ Count(trace, "message_delta") > 0 =>
        TerminalDelta(trace).stop_reason =
          (IF IsSome(LastFinishReason(BeforeDone(fed)))
           THEN map_stop_reason(Unwrap(LastFinishReason(BeforeDone(fed))))
           ELSE "end_turn")

HasCompletionTokens(p) ==
  p.kind = "json" /\ IsSome(p.usage) /\ IsSome(Unwrap(p.usage).completion_tokens)

HasPromptTokens(p) ==
  p.kind = "json" /\ IsSome(p.usage) /\ IsSome(Unwrap(p.usage).prompt_tokens)

\* usage.completion_tokens of the last payload that carries it, 0 if none
LastCompletionTokens(payloads) ==
  LET ps == SelectSeq(payloads, HasCompletionTokens)
  IN IF ps = <<>> THEN 0 ELSE Unwrap(Unwrap(ps[Len(ps)].usage).completion_tokens)

\* usage.prompt_tokens of the last payload that carries it, 0 if none
LastPromptTokens(payloads) ==
  LET ps == SelectSeq(payloads, HasPromptTokens)
  IN IF ps = <<>> THEN 0 ELSE Unwrap(Unwrap(ps[Len(ps)].usage).prompt_tokens)

(***************************************************************************)
(* C14.  output_tokens of the terminal message_delta is the                *)
(* completion_tokens of the last payload before termination that carried   *)
(* one (0 if none), whether or not that payload has choices; a payload     *)
(* with only one of prompt_tokens and completion_tokens leaves the other   *)
(* counter as it was.                                                      *)
(***************************************************************************)
C14_UsageLastObserved ==
  /\ t.output_tokens = LastCompletionTokens(fed)
  /\ t.input_tokens = LastPromptTokens(fed)
  /\ Count(trace, "message_delta") > 0 =>
        TerminalDelta(trace).output_tokens = LastCompletionTokens(BeforeDone(fed))

\* usage without choices, then usage with prompt_tokens only, then [DONE]
C14_Witness ==
  /\ Len(fed) >= 3
  /\ \E i \in 1..(Len(fed) - 2) :
       fed[i] = P_usage_only /\ fed[i + 1] = P_stop /\ fed[i + 2] = Done
  /\ Count(trace, "message_delta") = 1
  /\ TerminalDelta(trace).output_tokens = 7
  /\ t.input_tokens = 9

IsTextDelta(f) == IsDelta(f) /\ f.kind = "text_delta"

\* delta.content of a payload with one choice, "" when it has none
ContentOf(data) ==
  IF /\ data.kind = "json"
     /\ IsSome(data.choices)
     /\ Len(Unwrap(data.choices)) = 1
     /\ IsSome(Unwrap(data.choices)[1].delta)
     /\ IsSome(Unwrap(Unwrap(data.choices)[1].delta).content)
  THEN Unwrap(Unwrap(Unwrap(data.choices)[1].delta).content)
  ELSE <<>>

\* what a call that returned the frames nf for a payload with the given
\* content may have put into text_delta frames, st being the transformer
\* before the call
TextDeltasOf(st, nf, content) ==
  \A i \in 1..Len(nf) :
    /\ IsTextDelta(nf[i]) =>
          IF i > 1 /\ IsStart(nf[i - 1])
          THEN /\ nf[i - 1].kind = "text"
               /\ nf[i - 1].index = nf[i].index
               /\ nf[i].data = strip_hallucinated_tags(content)
          ELSE /\ st.in_text_block
               /\ nf[i].index = st.content_index
               /\ nf[i].data = content
    /\ (IsStart(nf[i]) /\ nf[i].kind = "text") =>
          i < Len(nf) /\ IsTextDelta(nf[i + 1])

(***************************************************************************)
(* C15.  In every text block only the first text_delta, the one that       *)
(* follows the block's start, carries sanitized text: the sanitized        *)
(* fragment that opened the block.  Every later text_delta of the block    *)
(* carries the upstream fragment verbatim, and every newly opened text     *)
(* block sanitizes its own first fragment.                                 *)
(***************************************************************************)
C15_FirstFragmentSanitized ==
  [][ fed' # fed =>
        TextDeltasOf(t, SubSeq(trace', Len(trace) + 1, Len(trace')),
                     ContentOf(fed'[Len(fed')])) ]_vars

\* a text block whose second fragment starts with whitespace and a tag and
\* is passed verbatim, then a thinking block, then a text block that
\* sanitizes its first fragment again
C15_Witness ==
  \E i, j \in 2..Len(trace) :
    /\ i < j
    /\ IsTextDelta(trace[i])
    /\ IsTextDelta(trace[i - 1])
    /\ trace[i].data = Unwrap(Unwrap(Unwrap(P_tag.choices)[1].delta).content)
    /\ IsTextDelta(trace[j])
    /\ IsStart(trace[j - 1])
    /\ trace[j].index = 2
    /\ trace[j].data = <<"a">>

(***************************************************************************)
(* SpecSanitize: strip_hallucinated_tags called on a text made of up to    *)
(* MaxPieces pieces: the tags, whitespace, a letter, a lone bracket and a  *)
(* tag in upper case.                                                      *)
(***************************************************************************)
Pieces ==
  {TAGS[k] : k \in 1..Len(TAGS)} \cup
  {<<" ">>, <<"a">>, <<"<">>, <<"T","H","O","U","G","H","T",":">>}

RECURSIVE TextsOf(_)
TextsOf(n) ==
  IF n = 0 THEN {<<>>}
  ELSE {x \o p : x \in TextsOf(n - 1), p \in Pieces \cup {<<>>}}

Texts == TextsOf(MaxPieces)

\* every variable of the streaming path at its initial value
Idle ==
  /\ t = new
  /\ trace = <<>>
  /\ fed = <<>>
  /\ pc = "new"
  /\ rpc = "idle"
  /\ phase = "start"
  /\ buffer = <<>>
  /\ lines = <<>>
  /\ pending = <<>>
  /\ reads = 0
  /\ stream_end = "open"
  /\ channel = <<>>
  /\ rx_open = TRUE
  /\ received = <<>>
  /\ body_ended = FALSE

streamVars == <<t, trace, fed, pc, rpc, phase, buffer, lines, pending, reads,
                stream_end, channel, rx_open, received, body_ended>>

InitSanitize ==
  /\ Idle
  /\ arg \in Texts
  /\ ret = None

\* strip_hallucinated_tags(arg) returns
Sanitize ==
  /\ ret = None
  /\ ret' = Some(strip_hallucinated_tags(arg))
  /\ UNCHANGED arg
  /\ UNCHANGED streamVars

\* the returned text is sanitized again
SanitizeAgain ==
  /\ IsSome(ret)
  /\ Unwrap(ret) # arg
  /\ arg' = Unwrap(ret)
  /\ ret' = None
  /\ UNCHANGED streamVars

NextSanitize == Sanitize \/ SanitizeAgain

SpecSanitize == InitSanitize /\ [][NextSanitize]_vars

(***************************************************************************)
(* C16.  strip_hallucinated_tags is idempotent; its result starts neither  *)
(* with whitespace nor, in any letter case, with one of the tags; its loop *)
(* ends after at most as many rounds as the input has characters.          *)
(***************************************************************************)
C16_SanitizerIdempotent ==
  IsSome(ret) =>
    /\ strip_hallucinated_tags(Unwrap(ret)) = Unwrap(ret)
    /\ Unwrap(ret) # <<>> => ~IsWhitespace(Head(Unwrap(ret)))
    /\ \A k \in 1..Len(TAGS) :
         ~starts_with(to_ascii_lowercase(Unwrap(ret)), to_ascii_lowercase(TAGS[k]))
    /\ strip_iterations(arg) <= Len(arg)
    /\ Len(Unwrap(ret)) <= Len(arg)

\* at least two tags were stripped and text that holds a "<" further on
\* is left
C16_Witness ==
  /\ IsSome(ret)
  /\ strip_iterations(arg) >= 2
  /\ Unwrap(ret) # <<>>
  /\ Unwrap(ret) # arg
  /\ \E i \in 1..Len(Unwrap(ret)) : Unwrap(ret)[i] = "<"

(***************************************************************************)
(* transform_response: the non-streaming translation of a dialect-C        *)
(* completion.  A JSON string field is None when it is absent or not a     *)
(* string.  message.content is [kind |-> "absent"], "null", "string" (with *)
(* text) or "array" (with blocks).                                         *)
(***************************************************************************)
Block(type, text, id, name, input, tool_use_id, content, is_error) ==
  [type |-> type, text |-> text, id |-> id, name |-> name, input |-> input,
   tool_use_id |-> tool_use_id, content |-> content, is_error |-> is_error]

NoInput == [kind |-> "", json |-> ""]

ThinkingBlock(thinking) == Block("thinking", thinking, <<>>, <<>>, NoInput, <<>>, <<>>, FALSE)
TextBlock(text) == Block("text", text, <<>>, <<>>, NoInput, <<>>, <<>>, FALSE)
ToolUseBlock(id, name, input) == Block("tool_use", <<>>, id, name, input, <<>>, <<>>, FALSE)
ToolResultBlock(tool_use_id, content, is_error) ==
  Block("tool_result", <<>>, <<>>, <<>>, NoInput, tool_use_id, content, is_error)

NoContent == [kind |-> "absent", text |-> <<>>, blocks |-> <<>>]
NullContent == [kind |-> "null", text |-> <<>>, blocks |-> <<>>]
StringContent(text) == [kind |-> "string", text |-> text, blocks |-> <<>>]
ArrayContent(blocks) == [kind |-> "array", text |-> <<>>, blocks |-> blocks]

\* Vec<String>::join("\n")
RECURSIVE join(_)
join(strings) ==
  IF strings = <<>> THEN <<>>
  ELSE IF Len(strings) = 1 THEN Head(strings)
  ELSE Head(strings) \o <<"\n">> \o join(Tail(strings))

\* filter_map of extract_text_from_blocks: the text of a text block
RECURSIVE text_of_blocks(_)
text_of_blocks(blocks) ==
  IF blocks = <<>> THEN <<>>
  ELSE (IF Head(blocks).type = Some("text") /\ IsSome(Head(blocks).text)
        THEN <<Unwrap(Head(blocks).text)>> ELSE <<>>)
       \o text_of_blocks(Tail(blocks))

extract_text_from_blocks(blocks) == join(text_of_blocks(blocks))

\* the JSON texts the model knows, one symbol each, and the kind of value
\* serde_json parses them to
json_kind(sym) ==
  CASE sym = "{}" -> "object"
    [] sym = "{a:1}" -> "object"
    [] sym = "[1]" -> "array"
    [] sym = "1" -> "number"
    [] OTHER -> "invalid"

JsonValue(kind, json) == [kind |-> kind, json |-> json]

\* serde_json::from_str(args_str).unwrap_or(json!({}))
parse_arguments(args_str) ==
  IF Len(args_str) = 1 /\ json_kind(args_str[1]) # "invalid"
  THEN JsonValue(json_kind(args_str[1]), args_str[1])
  ELSE JsonValue("object", "{}")

\* the tool_use block of one entry of message.tool_calls; uuid is the fresh
\* Uuid::new_v4 of the fallback id
tool_use_block(tc, uuid) ==
  ToolUseBlock(IF IsSome(tc.id) /\ Unwrap(tc.id) # <<>>
               THEN Unwrap(tc.id) ELSE <<"toolu_">> \o uuid,
               IF IsSome(tc.name) THEN Unwrap(tc.name) ELSE <<>>,
               parse_arguments(IF IsSome(tc.arguments)
                               THEN Unwrap(tc.arguments) ELSE <<"{}">>))

\* if let Some(reasoning) = message.reasoning_content
thinking_blocks(message) ==
  IF IsSome(message.reasoning_content) /\ Unwrap(message.reasoning_content) # <<>>
  THEN <<ThinkingBlock(Unwrap(message.reasoning_content))>>
  ELSE <<>>

\* a text block for filtered_text unless it is empty
text_before_tools(filtered_text) ==
  IF filtered_text # <<>> THEN <<TextBlock(filtered_text)>> ELSE <<>>

\* the tool_calls branch; the k-th fresh uuid is <<seed, k>>
tool_call_blocks(message, seed) ==
  (IF message.content.kind = "string"
   THEN text_before_tools(strip_hallucinated_tags(message.content.text))
   ELSE <<>>)
  \o [k \in 1..Len(Unwrap(message.tool_calls)) |->
        tool_use_block(Unwrap(message.tool_calls)[k], <<seed, k>>)]

\* the tool result branch
tool_result_blocks(message) ==
  <<ToolResultBlock(IF IsSome(message.tool_call_id) THEN Unwrap(message.tool_call_id)
                    ELSE <<>>,
                    CASE message.content.kind = "string" -> message.content.text
                      [] message.content.kind = "array" ->
                           extract_text_from_blocks(message.content.blocks)
                      [] OTHER -> <<>>,
                    IF IsSome(message.is_error) THEN Unwrap(message.is_error)
                    ELSE FALSE)>>

\* the regular text branch
text_blocks(message) ==
  <<TextBlock(strip_hallucinated_tags(IF message.content.kind = "string"
                                      THEN message.content.text ELSE <<>>))>>

\* content_blocks whose tool result branch is an `if`, not an `else if`
content_blocks_without_else(message, seed) ==
  thinking_blocks(message) \o
  (IF IsSome(message.tool_calls) THEN tool_call_blocks(message, seed) ELSE <<>>) \o
  (IF message.role = Some("tool") \/ message.has_tool_call_id
   THEN tool_result_blocks(message)
   ELSE IF IsSome(message.tool_calls) THEN <<>> ELSE text_blocks(message))

content_blocks(message, seed) ==
  thinking_blocks(message) \o
  (IF IsSome(message.tool_calls) THEN tool_call_blocks(message, seed)
   ELSE IF message.role = Some("tool") \/ message.has_tool_call_id
   THEN tool_result_blocks(message)
   ELSE text_blocks(message))

EmptyMessage ==
  [reasoning_content |-> None, tool_calls |-> None, content |-> NoContent,
   role |-> None, has_tool_call_id |-> FALSE, tool_call_id |-> None,
   is_error |-> None]

MessageChoice(message, finish_reason) ==
  [message |-> message, finish_reason |-> finish_reason]

\* json!({}) standing in for a missing choice
EmptyChoice == MessageChoice(None, None)

Completion(choices, usage) == [choices |-> choices, usage |-> usage]

\* choices.as_array().first(), or {}
first_choice(openai_response) ==
  IF IsSome(openai_response.choices) /\ Unwrap(openai_response.choices) # <<>>
  THEN Head(Unwrap(openai_response.choices))
  ELSE EmptyChoice

\* choice.get("message"), or {}
message_of(choice) ==
  IF IsSome(choice.message) THEN Unwrap(choice.message) ELSE EmptyMessage

\* finish_reason.map(map_stop_reason).unwrap_or("end_turn")
stop_reason_of(choice) ==
  IF IsSome(choice.finish_reason)
  THEN map_stop_reason(Unwrap(choice.finish_reason))
  ELSE "end_turn"

\* usage.<field>.as_u64().unwrap_or(0)
tokens_of(usage, field) ==
  IF IsSome(usage) /\ IsSome(Unwrap(usage)[field]) THEN Unwrap(Unwrap(usage)[field]) ELSE 0

\* seed stands for the Uuid::new_v4 values the call draws
transform_response(openai_response, seed) ==
  [id |-> <<"msg_", seed, 0>>,
   type |-> "message",
   role |-> "assistant",
   content |-> content_blocks(message_of(first_choice(openai_response)), seed),
   stop_reason |-> stop_reason_of(first_choice(openai_response)),
   input_tokens |-> tokens_of(openai_response.usage, "prompt_tokens"),
   output_tokens |-> tokens_of(openai_response.usage, "completion_tokens")]

\* the values Uuid::new_v4 may return are told apart by a seed
Seeds == {"u1", "u2"}

(***************************************************************************)
(* SpecStop: one finish_reason, absent or a string, is given to the three  *)
(* users of map_stop_reason: a stream that carries it in a chunk and ends  *)
(* by [DONE] or by finish(), and a completion translated by                *)
(* transform_response.                                                     *)
(***************************************************************************)
FinishReasons ==
  {None, Some("stop"), Some("tool_calls"), Some("length"), Some("content_filter"),
   Some("function_call"), Some("")}

\* {"choices":[{"delta":{},"finish_reason":fr}]}
FinishChunk(fr) == Json(None, Some(<<Choice(EmptyDelta, fr)>>))

\* {"choices":[{"message":{"content":"a"},"finish_reason":fr}]}
FinishCompletion(fr) ==
  Completion(Some(<<MessageChoice(Some([EmptyMessage EXCEPT
                                          !.content = StringContent(<<"a">>)]), fr)>>),
             None)

InitStop ==
  /\ Idle
  /\ arg \in FinishReasons
  /\ ret = None

\* process_chunk on [DONE], on a content chunk or on the chunk that carries
\* the finish_reason
ProcessStopChunk ==
  /\ pc = "streaming"
  /\ Len(fed) < MaxPayloads
  /\ \E data \in {Done, P_text, P_think, FinishChunk(arg)} :
       /\ Returned(process_chunk(t, data))
       /\ fed' = Append(fed, data)
  /\ UNCHANGED pc
  /\ UNCHANGED readerVars
  /\ UNCHANGED callVars

\* transform_response on the completion that carries the finish_reason
TransformStop ==
  /\ ret = None
  /\ \E seed \in Seeds : ret' = Some(transform_response(FinishCompletion(arg), seed))
  /\ UNCHANGED arg
  /\ UNCHANGED streamVars

NextStop == StartEvent \/ ProcessStopChunk \/ Finish \/ TransformStop

SpecStop == InitStop /\ [][NextStop]_vars

\* the table of the finish-reason mapping
StopReasonTable(fr) ==
  IF fr = None THEN "end_turn"
  ELSE IF fr = Some("stop") THEN "end_turn"
  ELSE IF fr = Some("tool_calls") THEN "tool_use"
  ELSE IF fr = Some("length") THEN "max_tokens"
  ELSE IF fr = Some("content_filter") THEN "end_turn"
  ELSE "end_turn"

(***************************************************************************)
(* C17.  The finish-reason mapping is total and follows the table, and it  *)
(* is the mapping transform_response, the [DONE] branch and finish() use:  *)
(* the stop_reason of a translated completion and of every message_delta   *)
(* is the table's value for the finish_reason given, end_turn when it is   *)
(* absent.                                                                 *)
(***************************************************************************)
C17_StopReasonMapping ==
  [][ /\ IsSome(ret') => Unwrap(ret').stop_reason = StopReasonTable(arg)
      /\ t'.last_finish_reason =
            (IF \E i \in 1..Len(fed') : fed'[i] = FinishChunk(arg) THEN arg ELSE None)
      /\ \A i \in (Len(trace) + 1)..Len(trace') :
            trace'[i].type = "message_delta" =>
              trace'[i].stop_reason = StopReasonTable(t.last_finish_reason) ]_vars

\* finish_reason "length": the stream ended by finish() and the translated
\* completion both report max_tokens
C17_Witness ==
  /\ arg = Some("length")
  /\ pc = "ended"
  /\ NoDoneProcessed
  /\ Count(trace, "message_delta") = 1
  /\ TerminalDelta(trace).stop_reason = "max_tokens"
  /\ IsSome(ret)
  /\ Unwrap(ret).stop_reason = "max_tokens"

(***************************************************************************)
(* SpecResponse: transform_response called on a completion.                *)
(***************************************************************************)
\* {"id":"A","function":{"name":"f","arguments":"{a:1}"}}
TC_A == ToolCall(0, Some(<<"A">>), Some(<<"f">>), Some(<<"{a:1}">>))
\* {"function":{"arguments":"[1]"}}
TC_anonymous == ToolCall(0, None, None, Some(<<"[1]">>))

ContentBlocks ==
  <<[type |-> Some("text"), text |-> Some(<<"b">>)],
    [type |-> Some("image"), text |-> None],
    [type |-> Some("text"), text |-> Some(<<"c">>)]>>

Messages ==
  {[reasoning_content |-> rc, tool_calls |-> tcs, content |-> c, role |-> r,
    has_tool_call_id |-> id[1], tool_call_id |-> id[2], is_error |-> e] :
     rc \in {None, Some(<<>>), Some(<<"t">>)},
     tcs \in {None, Some(<<>>), Some(<<TC_A>>), Some(<<TC_anonymous, TC_A>>)},
     c \in {NoContent, NullContent, StringContent(<<>>),
            StringContent(<<" ","<","t","h","i","n","k","i","n","g",">"," ">>),
            StringContent(<<"\n","a">>), ArrayContent(ContentBlocks)},
     r \in {None, Some("assistant"), Some("tool")},
     id \in {<<FALSE, None>>, <<TRUE, None>>, <<TRUE, Some(<<"R">>)>>},
     e \in {None, Some(TRUE)}}

Completions ==
  {Completion(Some(<<MessageChoice(Some(m), fr)>>), u) :
     m \in Messages, fr \in {None, Some("tool_calls")},
     u \in {None, Some(Usage(Some(3), Some(7)))}}
  \cup {Completion(None, None),
        Completion(Some(<<>>), None),
        Completion(Some(<<MessageChoice(None, Some("stop"))>>), None)}

InitResponse ==
  /\ Idle
  /\ arg \in Completions
  /\ ret = None

TransformResponse ==
  /\ ret = None
  /\ \E seed \in Seeds : ret' = Some(transform_response(arg, seed))
  /\ UNCHANGED arg
  /\ UNCHANGED streamVars

NextResponse == TransformResponse

SpecResponse == InitResponse /\ [][NextResponse]_vars

ReasoningOf(m) ==
  IF IsSome(m.reasoning_content) THEN Unwrap(m.reasoning_content) ELSE <<>>

ContentStringOf(m) == IF m.content.kind = "string" THEN m.content.text ELSE <<>>

\* a thinking block is first, and is there exactly when reasoning_content
\* is a non-empty string
ThinkingFirst(m, blocks) ==
  /\ ReasoningOf(m) # <<>> =>
        blocks # <<>> /\ blocks[1] = ThinkingBlock(ReasoningOf(m))
  /\ \A i \in 1..Len(blocks) :
       blocks[i].type = "thinking" => i = 1 /\ ReasoningOf(m) # <<>>

\* the blocks after the thinking block
AfterThinking(m, blocks) ==
  SubSeq(blocks, IF ReasoningOf(m) # <<>> THEN 2 ELSE 1, Len(blocks))

\* an optional non-empty sanitized text block, then one tool_use block per
\* tool call, in order
ToolCallsBranch(m, rest) ==
  LET text == strip_hallucinated_tags(ContentStringOf(m))
      n == IF text # <<>> THEN 1 ELSE 0
      tcs == Unwrap(m.tool_calls)
  IN /\ Len(rest) = n + Len(tcs)
     /\ n = 1 => rest[1] = TextBlock(text)
     /\ \A k \in 1..Len(tcs) :
          /\ rest[n + k].type = "tool_use"
          /\ rest[n + k].name = (IF IsSome(tcs[k].name) THEN Unwrap(tcs[k].name) ELSE <<>>)
          /\ IsSome(tcs[k].id) => rest[n + k].id = Unwrap(tcs[k].id)

\* a single tool_result block
ToolResultBranch(m, rest) ==
  /\ Len(rest) = 1
  /\ rest[1].type = "tool_result"
  /\ rest[1].tool_use_id = (IF IsSome(m.tool_call_id) THEN Unwrap(m.tool_call_id) ELSE <<>>)

\* a single text block with the sanitized content
TextBranch(m, rest) == rest = <<TextBlock(strip_hallucinated_tags(ContentStringOf(m)))>>

ContentAsClaimed(m, blocks) ==
  /\ ThinkingFirst(m, blocks)
  /\ IF IsSome(m.tool_calls) THEN ToolCallsBranch(m, AfterThinking(m, blocks))
     ELSE IF m.role = Some("tool") \/ m.has_tool_call_id
     THEN ToolResultBranch(m, AfterThinking(m, blocks))
     ELSE TextBranch(m, AfterThinking(m, blocks))

(***************************************************************************)
(* C18.  The content array transform_response builds from choices[0] is:   *)
(* a thinking block first when reasoning_content is non-empty; then, if    *)
(* tool_calls is there, an optional non-empty sanitized text block and one *)
(* tool_use block per tool call in order; else, if role is tool or         *)
(* tool_call_id is present, a single tool_result block; else a single text *)
(* block with the sanitized content.  Exactly one of the three branches    *)
(* contributes.                                                            *)
(***************************************************************************)
C18_ContentOrder ==
  IsSome(ret) => ContentAsClaimed(message_of(first_choice(arg)), Unwrap(ret).content)

\* a message with reasoning, text, two tool calls and a tool_call_id: the
\* content is thinking, text, tool_use, tool_use and no tool_result
C18_Witness ==
  /\ IsSome(ret)
  /\ Len(Unwrap(ret).content) = 4
  /\ Unwrap(ret).content[2] = TextBlock(<<"a">>)
  /\ Unwrap(ret).content[3].type = "tool_use"
  /\ Unwrap(ret).content[4].id = <<"A">>
  /\ message_of(first_choice(arg)).role = Some("tool")
  /\ message_of(first_choice(arg)).has_tool_call_id

(***************************************************************************)
(* convert_content_blocks: a dialect-M message with block content becomes  *)
(* dialect-C messages.  A block is a record of the fields the code reads;  *)
(* a string field is None when absent or not a string.                     *)
(***************************************************************************)
ContentBlock(type, text, source, tool_use_id, content, id, name, input) ==
  [type |-> type, text |-> text, source |-> source, tool_use_id |-> tool_use_id,
   content |-> content, id |-> id, name |-> name, input |-> input]

ImageSource(media_type, data) == [media_type |-> media_type, data |-> data]

\* a part of a role:user message
TextPart(text) == [type |-> "text", text |-> text, url |-> <<>>]
ImagePart(url) == [type |-> "image_url", text |-> <<>>, url |-> url]

\* a dialect-C message; content is "parts", "string" or "absent"
OutMessage(role, kind, parts, text, tool_call_id, tool_calls) ==
  [role |-> role, kind |-> kind, parts |-> parts, text |-> text,
   tool_call_id |-> tool_call_id, tool_calls |-> tool_calls]

UserMessage(parts) == OutMessage("user", "parts", parts, <<>>, <<>>, None)
ToolMessage(tool_use_id, content) ==
  OutMessage("tool", "string", <<>>, content, tool_use_id, None)

\* block.get("type").and_then(as_str).unwrap_or("text")
block_type(block) == IF IsSome(block.type) THEN Unwrap(block.type) ELSE "text"

\* format!("data:{};base64,{}", media_type, data)
data_url(source) ==
  <<"data:">> \o (IF IsSome(source.media_type) THEN Unwrap(source.media_type)
                  ELSE <<"image/png">>)
  \o <<";base64,">> \o (IF IsSome(source.data) THEN Unwrap(source.data) ELSE <<>>)

\* the content of a tool_result block as a string
tool_result_content(block) ==
  CASE block.content.kind = "string" -> block.content.text
    [] block.content.kind = "array" -> join(text_of_blocks(block.content.blocks))
    [] OTHER -> <<>>

\* if !parts.is_empty() { messages.push(user message) }
flush(parts) == IF parts # <<>> THEN <<UserMessage(parts)>> ELSE <<>>

\* the tool_result arm that forgets parts = Vec::new() after the flush
tool_result_arm_keeps_parts(acc, block) ==
  [parts |-> acc.parts,
   messages |-> acc.messages \o flush(acc.parts) \o
                <<ToolMessage(IF IsSome(block.tool_use_id) THEN Unwrap(block.tool_use_id)
                              ELSE <<>>,
                              tool_result_content(block))>>]

\* the tool_result arm: flush the parts, push the role:tool message
tool_result_arm(acc, block) ==
  [parts |-> <<>>,
   messages |-> acc.messages \o flush(acc.parts) \o
                <<ToolMessage(IF IsSome(block.tool_use_id) THEN Unwrap(block.tool_use_id)
                              ELSE <<>>,
                              tool_result_content(block))>>]

\* one turn of the loop of the "user" arm; acc is [parts, messages]
user_block(acc, block) ==
  CASE block_type(block) = "text" ->
         [acc EXCEPT !.parts = Append(@, TextPart(IF IsSome(block.text)
                                                  THEN Unwrap(block.text) ELSE <<>>))]
    [] block_type(block) = "image" ->
         IF IsSome(block.source)
         THEN [acc EXCEPT !.parts = Append(@, ImagePart(data_url(Unwrap(block.source))))]
         ELSE acc
    [] block_type(block) = "tool_result" -> tool_result_arm(acc, block)
    [] OTHER -> acc

RECURSIVE user_blocks(_, _)
user_blocks(acc, blocks) ==
  IF blocks = <<>> THEN acc
  ELSE user_blocks(user_block(acc, Head(blocks)), Tail(blocks))

\* the flush after the loop
user_end(acc) == acc.messages \o flush(acc.parts)

\* serde_json::to_string(&input): the compact JSON text of the value
to_string(value) == <<value.json>>

\* an entry of tool_calls of a role:assistant message
OutToolCall(id, name, arguments) ==
  [id |-> id, type |-> "function", name |-> name, arguments |-> arguments]

\* the "assistant" arm with its texts joined by a line break
assistant_block_joins_lines(acc, block) ==
  CASE block_type(block) = "text" ->
         IF IsSome(block.text)
         THEN [acc EXCEPT !.text_content =
                 (IF @ = <<>> THEN @ ELSE @ \o <<"\n">>) \o Unwrap(block.text)]
         ELSE acc
    [] block_type(block) = "tool_use" ->
         [acc EXCEPT !.tool_calls =
            Append(@, OutToolCall(IF IsSome(block.id) THEN Unwrap(block.id) ELSE <<>>,
                                  IF IsSome(block.name) THEN Unwrap(block.name) ELSE <<>>,
                                  to_string(IF IsSome(block.input) THEN Unwrap(block.input)
                                            ELSE JsonValue("object", "{}"))))]
    [] OTHER -> acc

\* one turn of the loop of the "assistant" arm; acc is
\* [text_content, tool_calls]
assistant_block(acc, block) ==
  CASE block_type(block) = "text" ->
         IF IsSome(block.text)
         THEN [acc EXCEPT !.text_content = @ \o Unwrap(block.text)]
         ELSE acc
    [] block_type(block) = "tool_use" ->
         [acc EXCEPT !.tool_calls =
            Append(@, OutToolCall(IF IsSome(block.id) THEN Unwrap(block.id) ELSE <<>>,
                                  IF IsSome(block.name) THEN Unwrap(block.name) ELSE <<>>,
                                  to_string(IF IsSome(block.input) THEN Unwrap(block.input)
                                            ELSE JsonValue("object", "{}"))))]
    [] OTHER -> acc

RECURSIVE assistant_blocks(_, _)
assistant_blocks(acc, blocks) ==
  IF blocks = <<>> THEN acc
  ELSE assistant_blocks(assistant_block(acc, Head(blocks)), Tail(blocks))

\* the role:assistant message pushed after the loop
assistant_end(acc) ==
  <<OutMessage("assistant",
               IF acc.text_content # <<>> THEN "string" ELSE "absent",
               <<>>, acc.text_content, <<>>,
               IF acc.tool_calls # <<>> THEN Some(acc.tool_calls) ELSE None)>>

\* filter_map of the arm of the other roles: the text of any block
RECURSIVE any_text_of_blocks(_)
any_text_of_blocks(blocks) ==
  IF blocks = <<>> THEN <<>>
  ELSE (IF IsSome(Head(blocks).text) THEN <<Unwrap(Head(blocks).text)>> ELSE <<>>)
       \o any_text_of_blocks(Tail(blocks))

\* messages is the vector pushed to; the result is the vector afterwards
convert_content_blocks(role, blocks, messages) ==
  CASE role = "user" ->
         user_end(user_blocks([parts |-> <<>>, messages |-> messages], blocks))
    [] role = "assistant" ->
         messages \o
         assistant_end(assistant_blocks([text_content |-> <<>>, tool_calls |-> <<>>],
                                        blocks))
    [] OTHER ->
         Append(messages,
                OutMessage(role, "string", <<>>, join(any_text_of_blocks(blocks)),
                           <<>>, None))

(***************************************************************************)
(* SpecBlocks: convert_content_blocks called with a role and up to         *)
(* MaxBlocks content blocks.                                               *)
(***************************************************************************)
NoBlockFields ==
  ContentBlock(None, None, None, None, NoContent, None, None, None)

\* {"type":"text","text":"a"}
B_text == [NoBlockFields EXCEPT !.type = Some("text"), !.text = Some(<<"a">>)]
\* {"text":"b"}
B_untyped == [NoBlockFields EXCEPT !.text = Some(<<"b">>)]
\* {"type":"image","source":{"media_type":"image/gif","data":"d"}}
B_image == [NoBlockFields EXCEPT
              !.type = Some("image"),
              !.source = Some(ImageSource(Some(<<"image/gif">>), Some(<<"d">>)))]
\* {"type":"image"}
B_image_no_source == [NoBlockFields EXCEPT !.type = Some("image")]
\* {"type":"tool_result","tool_use_id":"R1","content":"r"}
B_result == [NoBlockFields EXCEPT !.type = Some("tool_result"),
                                  !.tool_use_id = Some(<<"R1">>),
                                  !.content = StringContent(<<"r">>)]
\* {"type":"tool_result","tool_use_id":"R2","content":[text b, image, text c]}
B_result_blocks == [NoBlockFields EXCEPT !.type = Some("tool_result"),
                                         !.tool_use_id = Some(<<"R2">>),
                                         !.content = ArrayContent(ContentBlocks)]
\* {"type":"tool_use","id":"T","name":"f","input":{a:1}}
B_tool_use == [NoBlockFields EXCEPT !.type = Some("tool_use"),
                                    !.id = Some(<<"T">>),
                                    !.name = Some(<<"f">>),
                                    !.input = Some(JsonValue("object", "{a:1}"))]
\* {"type":"tool_use"}
B_tool_use_bare == [NoBlockFields EXCEPT !.type = Some("tool_use")]
\* {"type":"thinking","thinking":"t","text":"t"}
B_thinking == [NoBlockFields EXCEPT !.type = Some("thinking"), !.text = Some(<<"t">>)]

BlockKinds ==
  {B_text, B_untyped, B_image, B_image_no_source, B_result, B_result_blocks,
   B_tool_use, B_tool_use_bare, B_thinking}

RECURSIVE BlockLists(_)
BlockLists(n) ==
  IF n = 0 THEN {<<>>}
  ELSE BlockLists(n - 1) \cup
       {Append(bs, b) : bs \in {x \in BlockLists(n - 1) : Len(x) = n - 1}, b \in BlockKinds}

Roles == {"user", "assistant", "system"}

InitBlocks ==
  /\ Idle
  /\ arg \in {[role |-> r, blocks |-> bs] : r \in Roles, bs \in BlockLists(MaxBlocks)}
  /\ ret = None

ConvertBlocks ==
  /\ ret = None
  /\ ret' = Some(convert_content_blocks(arg.role, arg.blocks, <<>>))
  /\ UNCHANGED arg
  /\ UNCHANGED streamVars

NextBlocks == ConvertBlocks

SpecBlocks == InitBlocks /\ [][NextBlocks]_vars

Item(kind, val) == [kind |-> kind, val |-> val]

\* what the blocks of a user message are to become, in block order: a part
\* per text block and per image block with a source, a tool message per
\* tool_result block, nothing for the other blocks
RECURSIVE ItemsOfBlocks(_)
ItemsOfBlocks(blocks) ==
  IF blocks = <<>> THEN <<>>
  ELSE LET b == Head(blocks)
       IN (CASE block_type(b) = "text" ->
                  <<Item("text", IF IsSome(b.text) THEN Unwrap(b.text) ELSE <<>>)>>
             [] block_type(b) = "image" /\ IsSome(b.source) ->
                  <<Item("image_url", data_url(Unwrap(b.source)))>>
             [] block_type(b) = "tool_result" ->
                  <<Item("tool", IF IsSome(b.tool_use_id) THEN Unwrap(b.tool_use_id)
                                 ELSE <<>>)>>
             [] OTHER -> <<>>)
          \o ItemsOfBlocks(Tail(blocks))

ItemOfPart(part) ==
  Item(part.type, IF part.type = "text" THEN part.text ELSE part.url)

\* the parts of the role:user messages and the role:tool messages, in the
\* order in which they were emitted
RECURSIVE ItemsOfMessages(_)
ItemsOfMessages(messages) ==
  IF messages = <<>> THEN <<>>
  ELSE LET m == Head(messages)
       IN (IF m.role = "tool" THEN <<Item("tool", m.tool_call_id)>>
           ELSE [k \in 1..Len(m.parts) |-> ItemOfPart(m.parts[k])])
          \o ItemsOfMessages(Tail(messages))

(***************************************************************************)
(* C19.  For a user message with block content the emitted messages keep   *)
(* the block order: one role:tool message per tool_result block, the parts *)
(* between two tool_result blocks in one role:user message, the parts      *)
(* after the last tool_result in one final role:user message, and no       *)
(* role:user message without parts.                                        *)
(***************************************************************************)
C19_UserBlocksInOrder ==
  (IsSome(ret) /\ arg.role = "user") =>
    /\ ItemsOfMessages(Unwrap(ret)) = ItemsOfBlocks(arg.blocks)
    /\ \A i \in 1..Len(Unwrap(ret)) :
         /\ Unwrap(ret)[i].role \in {"user", "tool"}
         /\ Unwrap(ret)[i].role = "user" => Unwrap(ret)[i].parts # <<>>
         /\ i < Len(Unwrap(ret)) =>
              ~(Unwrap(ret)[i].role = "user" /\ Unwrap(ret)[i + 1].role = "user")

\* text, tool_result, tool_result, text: a user message, two tool messages
\* with nothing flushed between them, and a final user message
C19_Witness ==
  /\ IsSome(ret)
  /\ arg.role = "user"
  /\ arg.blocks = <<B_text, B_result, B_result_blocks, B_untyped>>
  /\ Len(Unwrap(ret)) = 4
  /\ Unwrap(ret)[1] = UserMessage(<<TextPart(<<"a">>)>>)
  /\ Unwrap(ret)[2].role = "tool"
  /\ Unwrap(ret)[3].tool_call_id = <<"R2">>
  /\ Unwrap(ret)[4] = UserMessage(<<TextPart(<<"b">>)>>)

(***************************************************************************)
(* transform_request: a dialect-M request becomes a dialect-C request.     *)
(* A field of the request is None when absent or not of the type the code  *)
(* asks for; system and a message's content are "absent", "string" or      *)
(* "array".                                                                *)
(***************************************************************************)
InMessage(role, content) == [role |-> role, content |-> content]

Tool(name, description, input_schema) ==
  [name |-> name, description |-> description, input_schema |-> input_schema]

ToolChoice(type, name) == [type |-> type, name |-> name]

Thinking(enabled, budget_tokens) == [enabled |-> enabled, budget_tokens |-> budget_tokens]

\* the value of tool_choice in the upstream request
ChoiceString(value) == [kind |-> "string", value |-> value, name |-> <<>>]
ChoiceFunction(name) == [kind |-> "function", value |-> "", name |-> name]

\* the system message, if any
system_messages(system) ==
  CASE system.kind = "string" ->
         <<OutMessage("system", "string", <<>>, system.text, <<>>, None)>>
    [] system.kind = "array" ->
         IF join(text_of_blocks(system.blocks)) # <<>>
         THEN <<OutMessage("system", "string", <<>>, join(text_of_blocks(system.blocks)),
                           <<>>, None)>>
         ELSE <<>>
    [] OTHER -> <<>>

\* msg.get("role").and_then(as_str).unwrap_or("user")
role_of(msg) == IF IsSome(msg.role) THEN Unwrap(msg.role) ELSE "user"

\* one turn of `for msg in messages`
convert_message(openai_messages, msg) ==
  CASE msg.content.kind = "string" ->
         Append(openai_messages,
                OutMessage(role_of(msg), "string", <<>>, msg.content.text, <<>>, None))
    [] msg.content.kind = "array" ->
         convert_content_blocks(role_of(msg), msg.content.blocks, openai_messages)
    [] OTHER -> openai_messages

RECURSIVE convert_messages(_, _)
convert_messages(openai_messages, messages) ==
  IF messages = <<>> THEN openai_messages
  ELSE convert_messages(convert_message(openai_messages, Head(messages)), Tail(messages))

\* one element of openai_tools
openai_tool(tool) ==
  [type |-> "function",
   name |-> IF IsSome(tool.name) THEN Unwrap(tool.name) ELSE <<>>,
   description |-> IF IsSome(tool.description) THEN Unwrap(tool.description) ELSE <<>>,
   parameters |-> IF IsSome(tool.input_schema) THEN Unwrap(tool.input_schema)
                  ELSE JsonValue("object", "{}")]

\* match tc_type { .. }: the tool_choice of the upstream request, if set
tool_choice_of(tc) ==
  CASE (IF IsSome(tc.type) THEN Unwrap(tc.type) ELSE "auto") = "auto" ->
         Some(ChoiceString("auto"))
    [] tc.type = Some("any") -> Some(ChoiceString("required"))
    [] tc.type = Some("tool") ->
         IF IsSome(tc.name) THEN Some(ChoiceFunction(Unwrap(tc.name))) ELSE None
    [] OTHER -> None

\* tool_choice handled outside the `if let Some(Array(tools))` block
tool_choice_without_tools(body) ==
  IF IsSome(body.tool_choice) THEN tool_choice_of(Unwrap(body.tool_choice)) ELSE None

\* the tool_choice block, which is inside the `if let Some(Array(tools))` block
tool_choice(body) ==
  IF IsSome(body.tools) /\ IsSome(body.tool_choice)
  THEN tool_choice_of(Unwrap(body.tool_choice))
  ELSE None

\* thinking.get("enabled") is Bool(true)
thinking_enabled(body) ==
  IsSome(body.thinking) /\ Unwrap(body.thinking).enabled = Some(TRUE)

transform_request(body) ==
  [model |-> IF IsSome(body.model) THEN Unwrap(body.model) ELSE <<>>,
   messages |-> convert_messages(system_messages(body.system),
                                 IF IsSome(body.messages) THEN Unwrap(body.messages)
                                 ELSE <<>>),
   max_tokens |-> IF IsSome(body.max_tokens) THEN Unwrap(body.max_tokens)
                  ELSE DEFAULT_MAX_TOKENS,
   stream |-> IF IsSome(body.stream) THEN Unwrap(body.stream) ELSE FALSE,
   temperature |-> body.temperature,
   top_p |-> body.top_p,
   stop |-> body.stop_sequences,
   tools |-> IF IsSome(body.tools)
             THEN Some([k \in 1..Len(Unwrap(body.tools)) |->
                          openai_tool(Unwrap(body.tools)[k])])
             ELSE None,
   tool_choice |-> tool_choice(body),
   reasoning |-> IF thinking_enabled(body) /\ IsSome(Unwrap(body.thinking).budget_tokens)
                 THEN Some(Unwrap(Unwrap(body.thinking).budget_tokens))
                 ELSE None,
   thinking |-> IF thinking_enabled(body) THEN body.thinking ELSE None,
   stream_options |-> IF body.stream = Some(TRUE) THEN Some("include_usage") ELSE None]

(***************************************************************************)
(* SpecRequest: transform_request called on a dialect-M request.           *)
(***************************************************************************)
ToolChoices ==
  {None, Some(ToolChoice(None, None)), Some(ToolChoice(Some("auto"), None)),
   Some(ToolChoice(Some("any"), None)), Some(ToolChoice(Some("tool"), Some(<<"f">>))),
   Some(ToolChoice(Some("tool"), None)), Some(ToolChoice(Some("none"), None))}

ToolLists ==
  {None, Some(<<>>),
   Some(<<Tool(Some(<<"f">>), Some(<<"d">>), Some(JsonValue("object", "{a:1}"))),
          Tool(None, None, None)>>)}

MessageLists ==
  {None, Some(<<>>),
   Some(<<InMessage(Some("user"), StringContent(<<"a">>))>>),
   Some(<<InMessage(None, ArrayContent(<<B_text, B_result, B_image>>)),
          InMessage(Some("assistant"), ArrayContent(<<B_thinking, B_text, B_tool_use>>)),
          InMessage(Some("user"), NoContent)>>)}

Requests ==
  {[model |-> Some(<<"m">>), max_tokens |-> mt, stream |-> st, system |-> sy,
    messages |-> ms, temperature |-> None, top_p |-> Some(1), stop_sequences |-> ss,
    tools |-> tl, tool_choice |-> tc, thinking |-> th] :
     mt \in {None, Some(5)},
     st \in {None, Some(TRUE), Some(FALSE)},
     sy \in {NoContent, StringContent(<<"s">>), ArrayContent(ContentBlocks)},
     ms \in MessageLists,
     ss \in {None, Some(<<"x">>)},
     tl \in ToolLists,
     tc \in ToolChoices,
     th \in {None, Some(Thinking(Some(TRUE), Some(9))), Some(Thinking(Some(FALSE), Some(9)))}}

InitRequest ==
  /\ Idle
  /\ arg \in Requests
  /\ ret = None

TransformRequest ==
  /\ ret = None
  /\ ret' = Some(transform_request(arg))
  /\ UNCHANGED arg
  /\ UNCHANGED streamVars

NextRequest == TransformRequest

SpecRequest == InitRequest /\ [][NextRequest]_vars

\* the tool_choice the table of the request mapping gives for tc
MappedToolChoice(tc, out) ==
  /\ tc.type = Some("auto") => out = Some(ChoiceString("auto"))
  /\ tc.type = Some("any") => out = Some(ChoiceString("required"))
  /\ (tc.type = Some("tool") /\ IsSome(tc.name)) =>
        out = Some(ChoiceFunction(Unwrap(tc.name)))

(***************************************************************************)
(* C20.  Every request that carries tool_choice has it mapped: auto to     *)
(* "auto", any to "required", tool with a name to the function object --   *)
(* whether or not the request carries a tools array.                       *)
(***************************************************************************)
C20_ToolChoiceMapped ==
  (IsSome(ret) /\ IsSome(arg.tool_choice)) =>
    MappedToolChoice(Unwrap(arg.tool_choice), Unwrap(ret).tool_choice)

(***************************************************************************)
(* C20, amended.  A request that carries tool_choice and a tools array has *)
(* it mapped: auto to "auto", any to "required", tool with a name to the   *)
(* function object.  A request without a tools array gets no tool_choice   *)
(* upstream, whatever its own tool_choice.                                 *)
(***************************************************************************)
C20_ToolChoiceMappedWithTools ==
  IsSome(ret) =>
    /\ (IsSome(arg.tools) /\ IsSome(arg.tool_choice)) =>
          MappedToolChoice(Unwrap(arg.tool_choice), Unwrap(ret).tool_choice)
    /\ ~IsSome(arg.tools) => Unwrap(ret).tool_choice = None
    /\ ~IsSome(arg.tool_choice) => Unwrap(ret).tool_choice = None

\* tool_choice {type: tool, name: f} with a tools array of two is mapped
C20_Witness ==
  /\ IsSome(ret)
  /\ IsSome(arg.tools)
  /\ Len(Unwrap(arg.tools)) = 2
  /\ arg.tool_choice = Some(ToolChoice(Some("tool"), Some(<<"f">>)))
  /\ Unwrap(ret).tool_choice = Some(ChoiceFunction(<<"f">>))
  /\ Len(Unwrap(Unwrap(ret).tools)) = 2

\* a block the "assistant" arm takes as text: its type is text, or absent
IsTextBlock(b) == b.type \in {None, Some("text")}

IsToolUseBlock(b) == b.type = Some("tool_use")

\* the texts of the text blocks, one after the other
TextOfBlocks(blocks) ==
  Flatten([k \in 1..Len(blocks) |->
             IF IsTextBlock(blocks[k]) /\ IsSome(blocks[k].text)
             THEN Unwrap(blocks[k].text) ELSE <<>>])

\* the tool call a tool_use block is to become
ToolCallOfBlock(b) ==
  [id |-> IF IsSome(b.id) THEN Unwrap(b.id) ELSE <<>>,
   type |-> "function",
   name |-> IF IsSome(b.name) THEN Unwrap(b.name) ELSE <<>>,
   arguments |-> IF IsSome(b.input) THEN <<Unwrap(b.input).json>> ELSE <<"{}">>]

(***************************************************************************)
(* C21.  For an assistant message with block content exactly one           *)
(* role:assistant message is emitted; its content is the texts of the text *)
(* blocks concatenated in block order without separator and is present     *)
(* only when non-empty; its tool_calls has one entry per tool_use block in *)
(* block order and is present only when non-empty; thinking blocks         *)
(* contribute to neither.                                                  *)
(***************************************************************************)
C21_AssistantBlocks ==
  (IsSome(ret) /\ arg.role = "assistant") =>
    LET uses == SelectSeq(arg.blocks, IsToolUseBlock)
    IN /\ Len(Unwrap(ret)) = 1
       /\ Unwrap(ret)[1].role = "assistant"
       /\ Unwrap(ret)[1].kind =
            (IF TextOfBlocks(arg.blocks) # <<>> THEN "string" ELSE "absent")
       /\ Unwrap(ret)[1].text = TextOfBlocks(arg.blocks)
       /\ Unwrap(ret)[1].tool_calls =
            (IF uses = <<>> THEN None
             ELSE Some([k \in 1..Len(uses) |-> ToolCallOfBlock(uses[k])]))

\* two text blocks around a thinking block, and a tool_use block
C21_Witness ==
  /\ IsSome(ret)
  /\ arg.role = "assistant"
  /\ Len(arg.blocks) = MaxBlocks
  /\ SelectSeq(arg.blocks, IsTextBlock) = <<B_text, B_untyped>>
  /\ \E k \in 2..(Len(arg.blocks) - 1) :
       /\ arg.blocks[k] = B_thinking
       /\ IsTextBlock(arg.blocks[k - 1])
  /\ Unwrap(ret)[1].text = <<"a", "b">>
  /\ IsSome(Unwrap(ret)[1].tool_calls)

(***************************************************************************)
(* The completion that aggregates the deltas of a stream, and the content  *)
(* blocks a frame trace describes.                                         *)
(***************************************************************************)
\* the payloads are a complete transcript: they end in the only [DONE]
CompleteTranscript ==
  /\ pc = "streaming"
  /\ fed # <<>>
  /\ fed[Len(fed)].kind = "done"
  /\ Len(BeforeDone(fed)) = Len(fed) - 1

HasDelta(choice) == IsSome(choice.delta)

\* the deltas of the payloads, in order
UpstreamDeltas(payloads) ==
  LET cs == SelectSeq(UpstreamChoices(payloads), HasDelta)
  IN [k \in 1..Len(cs) |-> Unwrap(cs[k].delta)]

\* the fragments the deltas carry in a string field, concatenated
Fragments(ds, field) ==
  Flatten([k \in 1..Len(ds) |-> IF IsSome(ds[k][field]) THEN Unwrap(ds[k][field]) ELSE <<>>])

\* the first value the deltas carry in a field, None when none does
FirstOf(ds, field) ==
  LET has == {k \in 1..Len(ds) : IsSome(ds[k][field])}
  IN IF has = {} THEN None ELSE ds[CHOOSE k \in has : \A j \in has : k <= j][field]

\* the n-th element of a set of positions
NthOf(S, n) == CHOOSE i \in S : Cardinality({j \in S : j <= i}) = n

\* the tool calls the entries add up to: an entry with an id starts one, its
\* arguments are those of the entries with its index up to the next start
AggregatedToolCalls(es) ==
  LET startsAt == {p \in 1..Len(es) : IsSome(es[p].id)}
  IN [n \in 1..Cardinality(startsAt) |->
        ToolCall(es[NthOf(startsAt, n)].index, es[NthOf(startsAt, n)].id,
                 es[NthOf(startsAt, n)].name,
                 Some(UpstreamArgs(es, NthOf(startsAt, n))))]

\* choices[0].message of the single document the deltas aggregate to
AggregatedMessage(ds, es) ==
  [reasoning_content |-> IF FirstOf(ds, "reasoning_content") = None THEN None
                         ELSE Some(Fragments(ds, "reasoning_content")),
   tool_calls |-> IF es = <<>> THEN None ELSE Some(AggregatedToolCalls(es)),
   content |-> IF FirstOf(ds, "content") = None THEN NoContent
               ELSE StringContent(Fragments(ds, "content")),
   role |-> FirstOf(ds, "role"),
   has_tool_call_id |-> \E k \in 1..Len(ds) : ds[k].has_tool_call_id,
   tool_call_id |-> FirstOf(ds, "tool_call_id"),
   is_error |-> FirstOf(ds, "is_error")]

AggregatedCompletion(payloads) ==
  Completion(Some(<<MessageChoice(Some(AggregatedMessage(UpstreamDeltas(payloads),
                                                         UpstreamEntries(payloads))),
                                  None)>>),
             None)

\* the data of the deltas of the given kinds that carry the index
DeltaData(tr, index, kinds) ==
  Flatten([i \in 1..Len(tr) |->
             IF IsDelta(tr[i]) /\ tr[i].index = index /\ tr[i].kind \in kinds
             THEN tr[i].data ELSE <<>>])

\* the content blocks a client rebuilds from the frames: one per
\* content_block_start, filled from the deltas of its index
StreamBlocks(tr) ==
  [k \in 1..Len(StartsOf(tr)) |->
     [type |-> StartsOf(tr)[k].kind,
      text |-> DeltaData(tr, StartsOf(tr)[k].index,
                         {"text_delta", "thinking_delta", "content_delta"}),
      id |-> StartsOf(tr)[k].id,
      name |-> StartsOf(tr)[k].name,
      args |-> DeltaData(tr, StartsOf(tr)[k].index, {"input_json_delta"}),
      is_error |-> StartsOf(tr)[k].is_error]]

\* a rebuilt block and a block of transform_response have the same kind
\* and the same id, name, input and text
SameBlock(sb, rb) ==
  /\ sb.type = rb.type
  /\ sb.type \in {"text", "thinking"} => sb.text = rb.text
  /\ sb.type = "tool_use" =>
        /\ sb.id = rb.id
        /\ sb.name = rb.name
        /\ parse_arguments(sb.args) = rb.input
  /\ sb.type = "tool_result" =>
        /\ sb.id = rb.tool_use_id
        /\ sb.text = rb.content
        /\ sb.is_error = rb.is_error

SameBlocks(sbs, rbs) ==
  /\ Len(sbs) = Len(rbs)
  /\ \A k \in 1..Len(sbs) : SameBlock(sbs[k], rbs[k])

(***************************************************************************)
(* C22.  For every complete transcript, the content blocks rebuilt from    *)
(* the translator's frames are the content blocks transform_response       *)
(* builds for the document that aggregates the same deltas: same kinds in  *)
(* the same order, same tool ids, names and arguments, same text.          *)
(***************************************************************************)
C22_StreamMatchesResponse ==
  CompleteTranscript =>
    \A seed \in Seeds :
      SameBlocks(StreamBlocks(trace),
                 transform_response(AggregatedCompletion(BeforeDone(fed)), seed).content)

(***************************************************************************)
(* The /v1/messages handler.  The request is the field the handler itself  *)
(* reads (stream, None unless a bool); upstream is what chat_completion    *)
(* and the reads of the response body return.                              *)
(***************************************************************************)
BAD_GATEWAY == 502
OK == 200

\* StatusCode::from_u16
from_u16(n) == IF 100 <= n /\ n <= 999 THEN Some(n) ELSE None

\* StatusCode::is_success
is_success(status) == 200 <= status /\ status <= 299

\* body.get("stream").and_then(as_bool).unwrap_or(false)
is_stream_of(body) == IF IsSome(body.stream) THEN Unwrap(body.stream) ELSE FALSE

\* {type: error, error: {type: api_error, message}}
ErrorEnvelope(message) ==
  [type |-> "error", error |-> [type |-> "api_error", message |-> message]]

HttpResponse(status, content_type, body) ==
  [status |-> status, content_type |-> content_type, body |-> body]

\* the response whose body is the ReceiverStream of the channel
sse_response == HttpResponse(OK, "text/event-stream", [type |-> "stream"])

\* the non-streaming branch: read the body, parse it, translate it
completion_response(upstream, seed) ==
  IF upstream.body.kind = "read_error"
  THEN HttpResponse(BAD_GATEWAY, "text/plain",
                    [type |-> "text", text |-> "Failed to read response"])
  ELSE IF upstream.body.kind = "invalid"
  THEN HttpResponse(BAD_GATEWAY, "text/plain",
                    [type |-> "text", text |-> "Failed to parse response"])
  ELSE HttpResponse(OK, "application/json",
                    transform_response(upstream.body.document, seed))

\* a handler that looks at stream before it looks at the upstream status
messages_streams_any_status(body, upstream, seed) ==
  IF upstream.kind = "error"
  THEN HttpResponse(BAD_GATEWAY, "application/json",
                    ErrorEnvelope(<<"OpenAI API error: ", upstream.error>>))
  ELSE IF is_stream_of(body) THEN sse_response
  ELSE IF ~is_success(upstream.status)
  THEN HttpResponse(IF IsSome(from_u16(upstream.status))
                    THEN Unwrap(from_u16(upstream.status)) ELSE BAD_GATEWAY,
                    "application/json", ErrorEnvelope(upstream.body.text))
  ELSE completion_response(upstream, seed)

\* the response of the handler
messages(body, upstream, seed) ==
  IF upstream.kind = "error"
  THEN HttpResponse(BAD_GATEWAY, "application/json",
                    ErrorEnvelope(<<"OpenAI API error: ", upstream.error>>))
  ELSE IF ~is_success(upstream.status)
  THEN HttpResponse(IF IsSome(from_u16(upstream.status))
                    THEN Unwrap(from_u16(upstream.status)) ELSE BAD_GATEWAY,
                    "application/json", ErrorEnvelope(upstream.body.text))
  ELSE IF is_stream_of(body) THEN sse_response
  ELSE completion_response(upstream, seed)

(***************************************************************************)
(* SpecRoute: one request to /v1/messages: the handler, and the reader     *)
(* task, channel and response body of a streamed response.                 *)
(***************************************************************************)
TransportError == [kind |-> "error", error |-> "connection refused"]

UpstreamResponse(status, body) == [kind |-> "response", status |-> status, body |-> body]

\* the body of an upstream response: text that is a completion, text that
\* is not JSON, a body whose read fails, or the byte stream of SpecReader
TextBody(text) == [kind |-> "text", text |-> text]
DocumentBody(document) == [kind |-> "document", text |-> <<"{..}">>, document |-> document]
InvalidBody == [kind |-> "invalid", text |-> <<"<html>">>]
UnreadableBody == [kind |-> "read_error", text |-> <<>>]
ByteStream == [kind |-> "stream", text |-> <<>>]

Statuses == {200, 201, 204, 301, 400, 404, 429, 500, 503}

RouteCalls ==
  {[stream |-> None, upstream |-> TransportError],
   [stream |-> Some(TRUE), upstream |-> TransportError]}
  \cup {[stream |-> st, upstream |-> UpstreamResponse(s, b)] :
          st \in {None, Some(FALSE), Some(TRUE)},
          s \in {x \in Statuses : ~is_success(x)},
          b \in {TextBody(<<"rate limited">>), UnreadableBody}}
  \cup {[stream |-> st, upstream |-> UpstreamResponse(s, b)] :
          st \in {None, Some(FALSE)},
          s \in {x \in Statuses : is_success(x)},
          b \in {DocumentBody(FinishCompletion(Some("stop"))),
                 DocumentBody(Completion(None, None)), InvalidBody, UnreadableBody}}
  \cup {[stream |-> Some(TRUE), upstream |-> UpstreamResponse(s, ByteStream)] :
          s \in {200, 201}}

InitRoute ==
  /\ Idle
  /\ arg \in RouteCalls
  /\ ret = None

\* the handler runs to its response; a streamed response spawns the reader
HandleMessages ==
  /\ ret = None
  /\ \E seed \in Seeds :
       /\ ret' = Some(messages(arg, arg.upstream, seed))
       /\ rpc' = IF Unwrap(ret').content_type = "text/event-stream" THEN "spawned" ELSE rpc
  /\ UNCHANGED <<t, trace, fed, pc, phase, buffer, lines, pending, reads, stream_end,
                 channel, rx_open, received, body_ended, arg>>

NextRoute == HandleMessages \/ NextReader

SpecRoute == InitRoute /\ [][NextRoute]_vars

IsErrorEnvelope(body) ==
  /\ body.type = "error"
  /\ DOMAIN body.error = {"type", "message"}
  /\ body.error.type = "api_error"

\* no StreamTransformer was made and no frame was produced
NoStream ==
  /\ rpc = "idle"
  /\ t = new
  /\ trace = <<>>
  /\ fed = <<>>
  /\ channel = <<>>
  /\ received = <<>>

(***************************************************************************)
(* C23.  The response of POST /v1/messages is an SSE stream exactly when   *)
(* the request has stream:true and upstream answered with a success        *)
(* status.  A transport failure gives 502 and a non-success status is      *)
(* forwarded, both with the body {type: error, error: {type: api_error,    *)
(* message}}; in both cases no StreamTransformer is made and no frame, not *)
(* even message_start, is ever produced.                                   *)
(***************************************************************************)
C23_StreamOrError ==
  /\ ret = None => NoStream
  /\ IsSome(ret) =>
       /\ Unwrap(ret).content_type = "text/event-stream" <=>
            /\ arg.stream = Some(TRUE)
            /\ arg.upstream.kind = "response"
            /\ is_success(arg.upstream.status)
       /\ arg.upstream.kind = "error" =>
            /\ Unwrap(ret).status = 502
            /\ IsErrorEnvelope(Unwrap(ret).body)
            /\ NoStream
       /\ (arg.upstream.kind = "response" /\ ~is_success(arg.upstream.status)) =>
            /\ Unwrap(ret).status = arg.upstream.status
            /\ IsErrorEnvelope(Unwrap(ret).body)
            /\ Unwrap(ret).body.error.message = arg.upstream.body.text
            /\ NoStream

\* a streaming request answered by upstream with 429
C23_Witness ==
  /\ IsSome(ret)
  /\ arg.stream = Some(TRUE)
  /\ arg.upstream.kind = "response"
  /\ arg.upstream.status = 429
  /\ Unwrap(ret).status = 429
  /\ Unwrap(ret).body = ErrorEnvelope(<<"rate limited">>)

HasNonEmptyId(e) == IsSome(e.id) /\ Unwrap(e.id) # <<>>

IsToolUseStart(f) == IsStart(f) /\ f.kind = "tool_use"

\* no block is open just before position i of the trace
NothingOpenBefore(tr, i) == OpenBlocks(SubSeq(tr, 1, i - 1)) = {}

(***************************************************************************)
(* C24.  The tool_use blocks of the trace are exactly the tool_calls       *)
(* entries that carry a non-empty id string, in order, each with the id    *)
(* and name of its entry; each is opened after the prior block is closed   *)
(* and under the next content index.  An entry whose id is absent or empty *)
(* opens no block.                                                         *)
(***************************************************************************)
C24_ToolBlockOnNonEmptyId ==
  LET opening == SelectSeq(UpstreamEntries(fed), HasNonEmptyId)
      starts == SelectSeq(trace, IsToolUseStart)
  IN /\ Len(starts) = Len(opening)
     /\ \A k \in 1..Len(starts) :
          k <= Len(opening) =>
            /\ starts[k].id = Unwrap(opening[k].id)
            /\ starts[k].name =
                 (IF IsSome(opening[k].name) THEN Unwrap(opening[k].name) ELSE <<>>)
     /\ \A i \in 1..Len(trace) :
          IsToolUseStart(trace[i]) =>
            /\ NothingOpenBefore(trace, i)
            /\ trace[i].index = Len(StartsOf(SubSeq(trace, 1, i - 1)))

\* a payload with one choice that has a delta
SingleDelta(p) ==
  /\ p.kind = "json"
  /\ IsSome(p.choices)
  /\ Len(Unwrap(p.choices)) = 1
  /\ IsSome(Unwrap(p.choices)[1].delta)

DeltaOf(p) == Unwrap(Unwrap(p.choices)[1].delta)

\* the delta marks a tool result: role is "tool" or tool_call_id is present
HasResultMarker(d) == d.role = Some("tool") \/ d.has_tool_call_id

IsToolResultStart(f) == IsStart(f) /\ f.kind = "tool_result"

\* what the tool-result start of a delta d is to do in a call that took the
\* transformer from st to st2 and the trace from tr to tr2
ToolResultStep(tr, tr2, st2, d) ==
  LET news == {i \in (Len(tr) + 1)..Len(tr2) : IsToolResultStart(tr2[i])}
  IN /\ HasResultMarker(d) => \A i \in OpenBlocks(tr) : i \notin OpenBlocks(tr2)
     /\ IF HasResultMarker(d) /\ IsSome(d.tool_call_id) /\ Unwrap(d.tool_call_id) # <<>>
        THEN /\ Cardinality(news) = 1
             /\ \A i \in news :
                  /\ tr2[i].id = Unwrap(d.tool_call_id)
                  /\ tr2[i].is_error = (IF IsSome(d.is_error) THEN Unwrap(d.is_error)
                                        ELSE FALSE)
                  /\ NothingOpenBefore(tr2, i)
                  /\ tr2[i].index = Len(StartsOf(SubSeq(tr2, 1, i - 1)))
             /\ st2.in_tool_result
        ELSE news = {}

(***************************************************************************)
(* C25.  A delta takes the tool-result start exactly when its role is      *)
(* "tool" or it carries tool_call_id, with or without a role field.  The   *)
(* transition closes the block that was open, and it opens a tool_result   *)
(* block under the next content index exactly when tool_call_id is a       *)
(* non-empty string.                                                       *)
(***************************************************************************)
C25_ToolResultStart ==
  [][ (fed' # fed /\ SingleDelta(fed'[Len(fed')])) =>
        ToolResultStep(trace, trace', t', DeltaOf(fed'[Len(fed')])) ]_vars

\* the transformer and the frames of a call after the thinking, tool-call
\* and tool-result start steps of a delta
BeforeContent(st, d) ==
  on_tool_result(on_tool_calls(on_reasoning_content(Call(st), d), d), d)

IsContentDelta(f) == IsDelta(f) /\ f.kind = "content_delta"

\* what a non-empty content fragment c is to do, r being the call after the
\* earlier steps of its delta, in a call that took the trace from tr to tr2
\* and left the transformer as st2
ContentStep(r, tr, tr2, st2, c) ==
  /\ SubSeq(tr2, Len(tr) + 1, Len(tr) + Len(r.events)) = r.events
  /\ IF r.t.in_tool_result
     THEN /\ SubSeq(tr2, Len(tr) + Len(r.events) + 1, Len(tr2)) =
               <<BlockDelta(r.t.content_index, "content_delta", c)>>
          /\ \E i \in OpenBlocks(tr \o r.events) :
               /\ (tr \o r.events)[i].kind = "tool_result"
               /\ (tr \o r.events)[i].index = r.t.content_index
          /\ st2.in_tool_result
          /\ ~st2.in_text_block
          /\ st2.content_index = r.t.content_index
     ELSE /\ \A i \in (Len(tr) + Len(r.events) + 1)..Len(tr2) : ~IsContentDelta(tr2[i])
          /\ process_text_content(Call(r.t), c) =
               [t |-> st2, events |-> SubSeq(tr2, Len(tr) + Len(r.events) + 1, Len(tr2))]

(***************************************************************************)
(* C26.  A non-empty content fragment of a delta has exactly one effect.   *)
(* If a tool_result block is open after the earlier steps of the delta,    *)
(* the fragment is emitted verbatim as one content_delta under that        *)
(* block's index, the block stays open and no text block is opened;        *)
(* otherwise the text transition is taken and no content_delta is emitted. *)
(***************************************************************************)
C26_ContentOneEffect ==
  [][ (/\ fed' # fed
       /\ SingleDelta(fed'[Len(fed')])
       /\ IsSome(DeltaOf(fed'[Len(fed')]).content)
       /\ Unwrap(DeltaOf(fed'[Len(fed')]).content) # <<>>) =>
        ContentStep(BeforeContent(t, DeltaOf(fed'[Len(fed')])), trace, trace', t',
                    Unwrap(DeltaOf(fed'[Len(fed')]).content)) ]_vars

\* a tool result was started and two content fragments went into it, the
\* second one, which starts with a line break, verbatim
C26_Witness ==
  /\ fed = <<P_result, P_text>>
  /\ t.in_tool_result
  /\ t.content_index = 0
  /\ trace[Len(trace)] = BlockDelta(0, "content_delta", <<"\n", "a">>)
  /\ trace[Len(trace) - 1] = BlockDelta(0, "content_delta", <<"c">>)
  /\ Len(StartsOf(trace)) = 1

\* a payload whose delta carries content and nothing else
ContentOnly(p) ==
  /\ SingleDelta(p)
  /\ DeltaOf(p) = [EmptyDelta EXCEPT !.content = DeltaOf(p).content]
  /\ IsSome(DeltaOf(p).content)
  /\ ~IsSome(Unwrap(p.choices)[1].finish_reason)
  /\ ~IsSome(p.usage)

(***************************************************************************)
(* C27.  When no text block is open (and no tool_result block takes the    *)
(* content) and a content fragment sanitizes to the empty string, the call *)
(* returns no frame and changes no field: an open thinking or tool_use     *)
(* block stays open and content_index is kept.  The next content fragment  *)
(* is sanitized as a first fragment again.                                 *)
(***************************************************************************)
C27_EmptyFirstFragment ==
  [][ (fed' # fed /\ ContentOnly(fed'[Len(fed')]) /\ ~t.in_text_block /\ ~t.in_tool_result) =>
        /\ strip_hallucinated_tags(ContentOf(fed'[Len(fed')])) = <<>> =>
             (t' = t /\ trace' = trace)
        /\ (/\ fed # <<>>
            /\ ContentOnly(fed[Len(fed)])
            /\ strip_hallucinated_tags(ContentOf(fed[Len(fed)])) = <<>>
            /\ strip_hallucinated_tags(ContentOf(fed'[Len(fed')])) # <<>>) =>
             /\ t'.in_text_block
             /\ t'.content_index = t.content_index + 1
             /\ trace'[Len(trace')] =
                  BlockDelta(t'.content_index, "text_delta",
                             strip_hallucinated_tags(ContentOf(fed'[Len(fed')]))) ]_vars

\* a thinking block is open, a fragment that is only a tag left it open,
\* and the fragment after it opened the text block with its sanitized text
C27_Witness ==
  /\ fed = <<P_think, P_tag, P_text>>
  /\ t.in_text_block
  /\ t.content_index = 1
  /\ Len(trace) = 7
  /\ trace[3].kind = "thinking_delta"
  /\ trace[4].kind = "signature_delta"
  /\ trace[7] = BlockDelta(1, "text_delta", <<"a">>)

\* the frames that close the block the trace has open: a signature_delta
\* first when it is a thinking block, then its content_block_stop
ClosingFrames(tr) ==
  IF OpenBlocks(tr) = {} THEN <<>>
  ELSE LET i == CHOOSE i \in OpenBlocks(tr) : TRUE
       IN (IF tr[i].kind = "thinking"
           THEN <<BlockDelta(tr[i].index, "signature_delta",
                             generate_signature(DeltaData(tr, tr[i].index,
                                                          {"thinking_delta"})))>>
           ELSE <<>>)
          \o <<BlockStop(tr[i].index)>>

(***************************************************************************)
(* C28.  finish() after a [DONE] payload was processed returns no frame    *)
(* and changes no field.  finish() when no [DONE] was processed closes the *)
(* open block, with its signature_delta first if it is a thinking block,   *)
(* and then returns message_delta followed by message_stop.                *)
(***************************************************************************)
C28_FinishAfterDone ==
  [][ (pc = "streaming" /\ pc' = "ended") =>
        IF ~NoDoneProcessed
        THEN t' = t /\ trace' = trace
        ELSE /\ trace' = trace \o ClosingFrames(trace) \o TerminalFrames(t)
             /\ OpenFlags(t') = {}
             /\ Cardinality(OpenBlocks(trace)) <= 1
             /\ OpenBlocks(trace') = {} ]_vars

\* finish() closed an open thinking block of two fragments
C28_Witness ==
  /\ pc = "ended"
  /\ NoDoneProcessed
  /\ Len(trace) >= 6
  /\ trace[Len(trace) - 3] = BlockDelta(t.content_index, "signature_delta",
                                        generate_signature(<<"t", "t">>))
  /\ IsStop(trace[Len(trace) - 2])
  /\ trace[Len(trace) - 1].type = "message_delta"
  /\ trace[Len(trace)].type = "message_stop"

IsThinkingStart(f) == IsStart(f) /\ f.kind = "thinking"

(***************************************************************************)
(* C29.  The signature of every signature_delta is the hash of the         *)
(* thinking_delta fragments emitted inside the same block, concatenated in *)
(* order: the accumulator holds the fragments of the open thinking block   *)
(* and is empty when no thinking block is open, so the fragments of an     *)
(* earlier thinking block never contribute.                                *)
(***************************************************************************)
C29_SignatureOfOwnBlock ==
  /\ \A j \in 1..Len(trace) :
       IsSignature(trace[j]) =>
         /\ trace[j].data =
              generate_signature(DeltaData(trace, trace[j].index, {"thinking_delta"}))
         /\ \E i \in 1..(j - 1) :
              /\ IsThinkingStart(trace[i])
              /\ trace[i].index = trace[j].index
              /\ OpenBetween(trace, i, j)
  /\ t.thinking_content =
       (IF t.in_thinking THEN DeltaData(trace, t.content_index, {"thinking_delta"})
        ELSE <<>>)

\* a thinking block of two fragments, a text block, and a second thinking
\* block whose signature is that of its own fragment
C29_Witness ==
  /\ fed = <<P_think, P_think, P_text, P_think_text>>
  /\ Len(SelectSeq(trace, IsSignature)) = 2
  /\ SelectSeq(trace, IsSignature)[1].data = generate_signature(<<"t", "t">>)
  /\ SelectSeq(trace, IsSignature)[2].data = generate_signature(<<"u">>)
  /\ Len(SelectSeq(trace, IsThinkingStart)) = 2

\* the transition a frame belongs to: 1 thinking, 2 tool call, 3 tool-result
\* start, 4 content; 0 for the frames of close-current-block
TransitionOf(f) ==
  CASE IsStart(f) /\ f.kind = "thinking" -> 1
    [] IsDelta(f) /\ f.kind = "thinking_delta" -> 1
    [] IsStart(f) /\ f.kind = "tool_use" -> 2
    [] IsDelta(f) /\ f.kind = "input_json_delta" -> 2
    [] IsStart(f) /\ f.kind = "tool_result" -> 3
    [] IsDelta(f) /\ f.kind = "content_delta" -> 4
    [] IsStart(f) /\ f.kind = "text" -> 4
    [] IsDelta(f) /\ f.kind = "text_delta" -> 4
    [] OTHER -> 0

HasId(e) == IsSome(e.id)

\* the frames tr2 has after tr are those of one delta d, in the order of
\* its transitions, and they open no block while another is open
DeltaStep(tr, tr2, d) ==
  /\ \A a, b \in (Len(tr) + 1)..Len(tr2) :
       (a < b /\ TransitionOf(tr2[a]) > 0 /\ TransitionOf(tr2[b]) > 0) =>
          TransitionOf(tr2[a]) <= TransitionOf(tr2[b])
  /\ (IsSome(d.reasoning_content) /\ Unwrap(d.reasoning_content) # <<>>) =>
       \E a \in (Len(tr) + 1)..Len(tr2) :
          /\ tr2[a].kind = "thinking_delta"
          /\ tr2[a].data = Unwrap(d.reasoning_content)
  /\ IsSome(d.tool_calls) =>
       Cardinality({a \in (Len(tr) + 1)..Len(tr2) : IsToolUseStart(tr2[a])})
         = Len(SelectSeq(Unwrap(d.tool_calls), HasId))
  /\ \A a \in (Len(tr) + 1)..Len(tr2) :
       /\ IsStart(tr2[a]) => NothingOpenBefore(tr2, a)
       /\ IsStop(tr2[a]) =>
            \E i \in OpenBlocks(SubSeq(tr2, 1, a - 1)) : tr2[i].index = tr2[a].index
  /\ Cardinality(OpenBlocks(tr2)) <= 1

(***************************************************************************)
(* C30.  The frames one delta produces follow the fixed order of the       *)
(* transitions: thinking, tool calls, tool-result start, content.  Each    *)
(* transition that opens a block first closes the block that is open, also *)
(* one opened by an earlier transition of the same delta, so no block is   *)
(* opened while another is open and every stop closes the open block.      *)
(***************************************************************************)
C30_TransitionsInOrder ==
  [][ (fed' # fed /\ SingleDelta(fed'[Len(fed')])) =>
        DeltaStep(trace, trace', DeltaOf(fed'[Len(fed')])) ]_vars

\* one delta with reasoning, a tool call, a tool-result marker and content
\* arrives while a text block is open
C30_Witness ==
  /\ fed = <<P_text, P_all>>
  /\ Len(StartsOf(trace)) = 4
  /\ StartsOf(trace)[2].kind = "thinking"
  /\ StartsOf(trace)[3].kind = "tool_use"
  /\ StartsOf(trace)[4].kind = "tool_result"
  /\ Len(SelectSeq(trace, IsStop)) = 3
  /\ trace[Len(trace)] = BlockDelta(3, "content_delta", <<"d">>)

(***************************************************************************)
(* SpecSplit: the reader task on a fixed upstream byte sequence that the   *)
(* byte stream delivers in chunks cut at any position.  arg holds the      *)
(* upstream bytes and how many of them have been delivered.                *)
(***************************************************************************)
\* two frames, each ended by a blank line
U_frames == Chunk("{text}") \o Chunk("[DONE]")

\* a comment line and two data lines in one frame that no blank line ends,
\* the first line ended by \r\n
U_leftover ==
  <<":", "\n", "data:", " ", "{think}", "\r", "\n", "data:", " ", "{toolA}">>

\* data: {"choices":[{"delta":{"content":"e'"}}]} with the two-byte
\* character e', ended by a blank line
U_two_byte == <<"data:", " ", "{content:", "\\xC3", "\\xA9", "}", "\n", "\n">>

Upstreams == {U_frames, U_leftover, U_two_byte}

InitSplit ==
  /\ t = new
  /\ trace = <<>>
  /\ fed = <<>>
  /\ pc = "new"
  /\ rpc = "spawned"
  /\ phase = "start"
  /\ buffer = <<>>
  /\ lines = <<>>
  /\ pending = <<>>
  /\ reads = 0
  /\ stream_end = "open"
  /\ channel = <<>>
  /\ rx_open = TRUE
  /\ received = <<>>
  /\ body_ended = FALSE
  /\ \E bytes \in Upstreams : arg = [bytes |-> bytes, pos |-> 0]
  /\ ret = None

\* stream.next().await yields the next n bytes of the upstream data
ReadPiece ==
  /\ rpc = "read"
  /\ \E n \in 1..(Len(arg.bytes) - arg.pos) :
       /\ Install(read_chunk(ReaderState, SubSeq(arg.bytes, arg.pos + 1, arg.pos + n)))
       /\ arg' = [arg EXCEPT !.pos = @ + n]
  /\ reads' = reads + 1
  /\ UNCHANGED <<pc, ret, stream_end, channel, rx_open, received, body_ended>>

\* stream.next().await yields None after the last byte, or Some(Err(_))
\* after any number of bytes
ReadStreamEnd ==
  /\ rpc = "read"
  /\ stream_end' = (IF arg.pos = Len(arg.bytes) THEN "eof" ELSE "error")
  /\ Install(read_end(ReaderState))
  /\ UNCHANGED <<pc, arg, ret, reads, channel, rx_open, received, body_ended>>

NextSplit ==
  \/ ReaderStart
  \/ ReaderSend
  \/ ReadPiece
  \/ ReadStreamEnd
  \/ ClientReceive
  \/ ClientDisconnect
  \/ BodyEnd

SpecSplit == InitSplit /\ [][NextSplit]_vars

\* the payloads of the lines of text that begin with "data: ", in order
RECURSIVE DataPayloads(_)
DataPayloads(ls) ==
  IF ls = <<>> THEN <<>>
  ELSE (IF IsSome(strip_prefix(Head(ls)))
        THEN <<Parse(trim(Unwrap(strip_prefix(Head(ls)))))>> ELSE <<>>)
       \o DataPayloads(Tail(ls))

\* the upstream data delivered so far, as one piece
Delivered == SubSeq(arg.bytes, 1, arg.pos)

(***************************************************************************)
(* C31.  When the reader task has run to its end, the payloads it passed   *)
(* to process_chunk are those of the data lines of the concatenated        *)
(* upstream data, one per line and in stream order, however the data was   *)
(* cut into chunks.                                                        *)
(***************************************************************************)
C31_SplitIndependent ==
  rpc = "done" => fed = DataPayloads(str_lines(from_utf8_lossy(Delivered)))

\* the input the tool_use block of the tool call tc is said to have: the
\* parsed arguments when they parse to an object, {} otherwise
ObjectInput(tc) ==
  IF IsSome(tc.arguments) /\ Len(Unwrap(tc.arguments)) = 1
     /\ json_kind(Unwrap(tc.arguments)[1]) = "object"
  THEN JsonValue("object", Unwrap(tc.arguments)[1])
  ELSE JsonValue("object", "{}")

\* a tool_use block of a response
IsToolUse(b) == b.type = "tool_use"

\* the tool calls of the message transform_response reads
ToolCallsOf(openai_response) ==
  IF IsSome(message_of(first_choice(openai_response)).tool_calls)
  THEN Unwrap(message_of(first_choice(openai_response)).tool_calls)
  ELSE <<>>

(***************************************************************************)
(* C32.  Every tool_use block transform_response returns has a JSON object *)
(* as its input: the k-th tool_use block has the parsed arguments of the   *)
(* k-th tool call when they parse to an object, and {} when they do not    *)
(* parse, are not an object, or are absent.                                *)
(***************************************************************************)
C32_ToolInputIsObject ==
  IsSome(ret) =>
    /\ Len(SelectSeq(Unwrap(ret).content, IsToolUse)) = Len(ToolCallsOf(arg))
    /\ \A k \in 1..Len(ToolCallsOf(arg)) :
         /\ SelectSeq(Unwrap(ret).content, IsToolUse)[k].input.kind = "object"
         /\ SelectSeq(Unwrap(ret).content, IsToolUse)[k].input
              = ObjectInput(ToolCallsOf(arg)[k])

(***************************************************************************)
(* C33.  The content array transform_response returns is never empty, also *)
(* for a message with an empty tool_calls array, a document without        *)
(* choices, and a message whose content is null.                           *)
(***************************************************************************)
C33_ContentNonEmpty ==
  IsSome(ret) => Unwrap(ret).content # <<>>

(***************************************************************************)
(* SpecSplitLive: the reader task under the scheduling it runs with.  The  *)
(* runtime polls a task whose await can complete: the first send, and      *)
(* every later send once the channel has room or the receiver is gone.  A  *)
(* client that keeps consuming takes the frame at the head of the channel; *)
(* the body ends once the sender is dropped and the channel is drained.    *)
(* Nothing obliges upstream to deliver, nor the client to disconnect.      *)
(***************************************************************************)
\* tx.send(..).await can complete; every ReaderSend step changes rpc or
\* pending, so this is ENABLED <<ReaderSend>>_vars
SendCanComplete == rpc = "send" /\ (~rx_open \/ has_capacity(channel))

\* WF_vars(ReaderSend), with SendCanComplete for ENABLED <<ReaderSend>>_vars
SendIsFair == []<>(~SendCanComplete) \/ []<><<ReaderSend>>_vars

SpecSplitLive ==
  /\ InitSplit
  /\ [][NextSplit]_vars
  /\ WF_vars(ReaderStart)
  /\ WF_vars(ClientReceive)
  /\ WF_vars(BodyEnd)
  /\ SendIsFair

(***************************************************************************)
(* C34.  While the client keeps consuming, the reader task does not stay   *)
(* at tx.send forever, and once the upstream byte stream has ended or      *)
(* failed the task terminates, the client receives every frame the task    *)
(* produced, and the response body ends.                                   *)
(***************************************************************************)
C34_ReaderTerminates ==
  /\ (rpc = "send") ~> (rpc \in {"read", "done"} \/ ~rx_open)
  /\ (stream_end # "open") ~>
       (~rx_open \/ (rpc = "done" /\ received = trace /\ body_ended))

\* upstream failed with a data line in the buffer that no blank line ended:
\* the leftover flush produced frames, the channel was filled on the way,
\* and the body has ended with every frame delivered
C34_Witness ==
  /\ body_ended
  /\ rpc = "done"
  /\ stream_end = "error"
  /\ arg.bytes = U_leftover
  /\ arg.pos < Len(arg.bytes)
  /\ Len(fed) >= 1
  /\ received = trace
  /\ Len(received) > ChanCap

====
